---- MODULE Spec2Model ----
(***************************************************************************)
(* Decision, order-sizing and ticket-materialization core of the trading   *)
(* operations pipeline (scripts/riskguard_run.py, scripts/trade_builder.py,*)
(* scripts/ticket_render.py), with the confirmation intake                 *)
(* (scripts/confirmations_submit.py, scripts/confirmation_gate.py) and the *)
(* scheduler (scripts/run_scheduled.py).                                   *)
(*                                                                         *)
(* Representation of numbers.  Instruments are the integers 1..3 in the    *)
(* order of their internal_symbol strings.  Holdings are counted in half   *)
(* units (units * 2), weights and fractions in percent, and every amount   *)
(* of money in 1/200 of a currency unit, so that units * price,            *)
(* weight * portfolio_value and portfolio_value * min_notional_pct are     *)
(* exact integers.  All amounts are therefore multiples of 0.005 and the   *)
(* round(x, 8) of trade_builder.py:353-356 returns its argument.           *)
(***************************************************************************)
EXTENDS Integers, Sequences, FiniteSets, TLC

VARIABLES
    facts,                   \* externally supplied facts, policy and environment
    portfolio_targets,       \* table portfolio_targets, per run
    ledger_trades_intended,  \* table ledger_trades_intended, per run
    trades_intended_json,    \* artifact runs/<run_id>/trades_intended.json
    tb_result,               \* TradeBuilderResult last returned for the run
    risk_checks,             \* table risk_checks, per run
    decisions,               \* table decisions, per run
    no_trade_json,           \* artifact runs/<run_id>/no_trade.json
    trades_approved_json,    \* artifact runs/<run_id>/trades_approved.json
    tickets,                 \* table tickets (with the ticket's artifacts), per run
    ledger_trades_fills,     \* table ledger_trades_fills
    confirmations,           \* table confirmations
    audit_log,               \* table audit_log
    clock,                   \* wall clock, in half seconds
    ops,                     \* number of operations executed so far
    proc,                    \* per run: the replace-all in flight, statement by statement
    pair,                    \* two ticket payloads and their material hashes
    submission,              \* history: the last confirmation submission and its fate
    last_eval,               \* history: the evaluation of the run not yet rendered
    passes,                  \* history: the last two evaluate-then-render passes
    sched                    \* the scheduled run in progress (run_scheduled.py)

vars == <<facts, portfolio_targets, ledger_trades_intended, trades_intended_json,
          tb_result, risk_checks, decisions, no_trade_json, trades_approved_json,
          tickets, ledger_trades_fills, confirmations, audit_log, clock, ops, proc,
          pair, submission, last_eval, passes, sched>>

MaxOps == 6

Step == ops < MaxOps /\ ops' = ops + 1

Runs == {1, 2}
Symbols == {1, 2, 3}

NoAsof == ""
NoSched ==
    [pc |-> "idle", cadence |-> "", scoring |-> "", running |-> "", steps |-> <<>>,
     run_id |-> 0, run_status |-> "", status |-> "", exit |-> -1]
NoTargetValue == -1
NoTicketId == 0
NoFile == [present |-> FALSE]
NoResult == [called |-> FALSE]
NoTicket == [present |-> FALSE]
Idle == [table |-> "none"]
NoPair == [present |-> FALSE]
(* JSON null, SQL NULL and Python None in a number field. *)
NoNumber == -1000000
NoSubmission == [present |-> FALSE]
NoDecision == [present |-> FALSE]

Min(a, b) == IF a <= b THEN a ELSE b
Max(a, b) == IF a >= b THEN a ELSE b
Money(x) == x * 200

RECURSIVE SumOver(_, _)
SumOver(S, f) ==
    IF S = {} THEN 0
    ELSE LET x == CHOOSE y \in S : TRUE IN f[x] + SumOver(S \ {x}, f)

(* Tuple comparison, as Python and SQL order composite keys. *)
RECURSIVE LexLess(_, _)
LexLess(a, b) ==
    IF a = <<>> \/ b = <<>> THEN FALSE
    ELSE IF Head(a) # Head(b) THEN Head(a) < Head(b)
    ELSE LexLess(Tail(a), Tail(b))

RECURSIVE SortedSeq(_)
SortedSeq(S) ==
    IF S = {} THEN <<>>
    ELSE LET m == CHOOSE x \in S : \A y \in S : x <= y
         IN <<m>> \o SortedSeq(S \ {m})

(* _floor_units: whole units that notional buys at price px (money/200). *)
_floor_units_Ceil(notional, px) ==
    IF px <= 0 THEN 0 ELSE (Max(0, notional) + px - 1) \div px

_floor_units(notional, px) ==
    IF px <= 0 THEN 0 ELSE Max(0, notional) \div px

(* positions: symbol -> half units held (0 = no row); value of a holding. *)
HeldSyms(sz) == {s \in Symbols : sz.positions[s] # 0}
HoldingValue(sz, s) == sz.positions[s] * sz.prices[s] * 100

portfolio_value(sz) ==
    Money(sz.cash) + SumOver(HeldSyms(sz), [s \in Symbols |-> HoldingValue(sz, s)])

effective_min_notional(sz) ==
    LET pv == portfolio_value(sz)
    IN IF pv > 0 /\ sz.min_notional_pct > 0
       THEN Min(Money(sz.min_notional_abs), (pv * sz.min_notional_pct) \div 100)
       ELSE Money(sz.min_notional_abs)

TargetRow(targets, s) == CHOOSE t \in targets : t.internal_symbol = s
TargetSyms(targets) == {t.internal_symbol : t \in targets}

target_value(sz, targets, s) ==
    IF s \notin TargetSyms(targets) THEN 0
    ELSE LET t == TargetRow(targets, s)
         IN IF t.target_value_base # NoTargetValue
            THEN Money(t.target_value_base)
            ELSE (t.target_weight * portfolio_value(sz)) \div 100

current_value(sz, s) == IF s \in HeldSyms(sz) THEN HoldingValue(sz, s) ELSE 0
delta(sz, targets, s) == target_value(sz, targets, s) - current_value(sz, s)

price_syms(sz, targets) == TargetSyms(targets) \cup HeldSyms(sz)

(* SELL pass, trade_builder.py:318-330. *)
SellUnits(sz, targets, s) ==
    LET sellable_units == Max(0, sz.positions[s]) \div 2
    IN Min(sellable_units, _floor_units(0 - delta(sz, targets, s), Money(sz.prices[s])))

SellEmitted(sz, targets, s) ==
    /\ delta(sz, targets, s) < 0
    /\ SellUnits(sz, targets, s) > 0
    /\ SellUnits(sz, targets, s) * Money(sz.prices[s]) >= effective_min_notional(sz)

SellIntent(sz, targets, s) ==
    [internal_symbol |-> s, side |-> "SELL", units |-> SellUnits(sz, targets, s),
     notional_value_base |-> SellUnits(sz, targets, s) * Money(sz.prices[s]),
     reference_price |-> Money(sz.prices[s])]

sells(sz, targets) ==
    {SellIntent(sz, targets, s) : s \in {x \in price_syms(sz, targets) : SellEmitted(sz, targets, x)}}

cash_after_sells(sz, targets) ==
    Money(sz.cash)
    + SumOver({x \in price_syms(sz, targets) : SellEmitted(sz, targets, x)},
              [s \in Symbols |-> SellUnits(sz, targets, s) * Money(sz.prices[s])])

(* BUY pass, trade_builder.py:332-344: syms is the ascending list still to *)
(* visit, cash_available the cash left, acc the BUY intents so far.        *)
BuyNotionalEmitted_NoFloor(notional, sz) == notional >= 0
BuyNotionalEmitted(notional, sz) == notional >= effective_min_notional(sz)

(* notional_wanted = min(delta, cash_available), trade_builder.py:338. *)
notional_wanted_Uncapped(d, cash_available) == d
notional_wanted(d, cash_available) == Min(d, cash_available)

(* The notional of a candidate of no whole unit, trade_builder.py:341:     *)
(* float(max(0.0, notional_wanted)).                                       *)
ZeroUnitNotional_Dropped(wanted) == 0
ZeroUnitNotional(wanted) == Max(0, wanted)

RECURSIVE BuyPass(_, _, _, _, _)
BuyPass(sz, targets, syms, cash_available, acc) ==
    IF syms = <<>> THEN acc
    ELSE LET s == Head(syms)
             d == delta(sz, targets, s)
             px == Money(sz.prices[s])
             wanted == notional_wanted(d, cash_available)
             units == _floor_units(wanted, px)
             notional == IF units > 0 THEN units * px ELSE ZeroUnitNotional(wanted)
         IN IF d > 0 /\ BuyNotionalEmitted(notional, sz)
            THEN BuyPass(sz, targets, Tail(syms), cash_available - notional,
                         Append(acc, [internal_symbol |-> s, side |-> "BUY", units |-> units,
                                      notional_value_base |-> notional, reference_price |-> px]))
            ELSE BuyPass(sz, targets, Tail(syms), cash_available, acc)

buys(sz, targets) ==
    BuyPass(sz, targets, SortedSeq(price_syms(sz, targets)), cash_after_sells(sz, targets), <<>>)

(* sorted(sells) + sorted(buys), trade_builder.py:346. *)
SellSeq(sz, targets) ==
    LET ss == sells(sz, targets)
        order == SortedSeq({t.internal_symbol : t \in ss})
    IN [i \in 1..Len(order) |-> CHOOSE t \in ss : t.internal_symbol = order[i]]

IntentOrder_BuysFirst(sellSeq, buySeq) == buySeq \o sellSeq
IntentOrder(sellSeq, buySeq) == sellSeq \o buySeq

intents(sz, targets) == IntentOrder(SellSeq(sz, targets), buys(sz, targets))

(* enumerate(intents, start=1) and the row written per intent, 347-362.   *)
SequenceOf(i) == i

IntentRows(its) ==
    [i \in 1..Len(its) |->
       [sequence |-> SequenceOf(i),
        internal_symbol |-> its[i].internal_symbol,
        side |-> its[i].side,
        units |-> its[i].units,
        notional_value_base |-> its[i].notional_value_base,
        reference_price |-> its[i].reference_price]]

intended_trades(sz, targets) == IntentRows(intents(sz, targets))

(* Asof date of a run: the data-quality report's, else the runs row's,     *)
(* riskguard_run.py:194-204 and trade_builder.py:411-423.                  *)
AsofOf(f) == IF f.dq # "none" THEN "d1" ELSE f.run_asof

(* DRYRUN_TRADES as trade_builder.py:148 reads it.                         *)
TbDryrun(f) == f.dryrun_env = "true"

MissingPrices(sz, targets) == {s \in price_syms(sz, targets) : sz.prices[s] = 0}

TbFail(reason) ==
    [called |-> TRUE, ok |-> FALSE, reason |-> reason, intended_count |-> 0,
     intended_trades |-> <<>>]

(* The result returned with the rows emitted, trade_builder.py:364-365 and *)
(* 401.                                                                    *)
TbOk(sz, rows) ==
    [called |-> TRUE, ok |-> TRUE,
     reason |-> IF Len(rows) > 0 THEN "OK" ELSE "NO_REBALANCE",
     intended_count |-> Len(rows), intended_trades |-> rows,
     cash_base |-> Money(sz.cash),
     min_notional_base_abs |-> Money(sz.min_notional_abs),
     min_notional_pct |-> sz.min_notional_pct,
     portfolio_value_base |-> portfolio_value(sz),
     effective_min_notional_base |-> effective_min_notional(sz)]

(* build_trades_for_run, trade_builder.py:142-401: the value returned,     *)
(* with the rows written to trades_intended.json.                          *)
TbOutcome(f, targets, asof_date) ==
    LET sz == f.sizing
    IN IF ~TbDryrun(f) THEN TbFail("DRYRUN_TRADES_DISABLED")
       ELSE IF targets = {} THEN TbFail("TARGETS_MISSING")
       ELSE IF \E t \in targets : t.asof_date # asof_date THEN TbFail("TARGETS_ASOF_MISMATCH")
       ELSE IF price_syms(sz, targets) = {} THEN TbFail("NO_SYMBOLS")
       ELSE IF MissingPrices(sz, targets) # {} THEN TbFail("PRICES_MISSING")
       ELSE TbOk(sz, intended_trades(sz, targets))

(* Rows of ledger_trades_intended written for an OK outcome, 368-399; an   *)
(* inserted row has no ticket_id.                                          *)
IntendedRows(rows) ==
    {[sequence |-> rows[i].sequence, internal_symbol |-> rows[i].internal_symbol,
      side |-> rows[i].side, units |-> rows[i].units,
      notional_value_base |-> rows[i].notional_value_base,
      reference_price |-> rows[i].reference_price, ticket_id |-> NoTicketId]
     : i \in 1..Len(rows)}

TbFile(out) ==
    [present |-> TRUE, trade_builder_ok |-> out.ok, reason |-> out.reason,
     intended_trades |-> out.intended_trades]

(* What a call of build_trades_for_run leaves behind, given its outcome.   *)
TbEffects(r, out) ==
    /\ tb_result' = [tb_result EXCEPT ![r] = out]
    /\ trades_intended_json' = [trades_intended_json EXCEPT ![r] = TbFile(out)]
    /\ ledger_trades_intended' =
          IF out.ok THEN [ledger_trades_intended EXCEPT ![r] = IntendedRows(out.intended_trades)]
          ELSE ledger_trades_intended

(* trade_builder.main, 426-450: the command-line entry of the sizing engine. *)
TradeBuilderMain(r) ==
    /\ Step
    /\ AsofOf(facts) # NoAsof
    /\ TbEffects(r, TbOutcome(facts, portfolio_targets[r], AsofOf(facts)))
    /\ UNCHANGED <<sched, pair, confirmations, audit_log, submission, proc, facts, portfolio_targets, risk_checks, decisions, no_trade_json,
                   trades_approved_json, tickets, ledger_trades_fills, clock,
                   last_eval, passes>>

(***************************************************************************)
(* RiskGate evaluator, scripts/riskguard_run.py.                           *)
(***************************************************************************)
CheckNames ==
    <<"data_quality", "reconciliation", "confirmations", "universe_verified",
      "ledger_ready", "trade_builder">>
KnownChecks == {CheckNames[i] : i \in 1..Len(CheckNames)}

Opt(cond, x) == IF cond THEN <<x>> ELSE <<>>

(* DRYRUN_TRADES as riskguard_run.py:110-114 and 387 read it.              *)
_bool_env(f) == f.dryrun_env \in {"true", "on"}

dq_ok(f) == f.dq = "t"

reconcile_ok_AsofIgnored(f) == IF f.reconcile_required THEN f.reconcile_window ELSE TRUE

(* 216-289: with reconciliation required, no as-of date fails the check,   *)
(* otherwise a passing reconciliation inside the window decides.           *)
reconcile_ok(f) ==
    IF f.reconcile_required
    THEN IF AsofOf(f) = NoAsof THEN FALSE ELSE f.reconcile_window
    ELSE TRUE

TradeTicketRuns == {q \in Runs : tickets[q].present /\ tickets[q].ticket_type = "TRADE"}

(* select ticket_id from tickets where ticket_type = 'TRADE' order by      *)
(* created_at desc limit 1, riskguard_run.py:291-293.                      *)
latest_trade_ticket ==
    IF TradeTicketRuns = {} THEN NoTicketId
    ELSE LET q == CHOOSE x \in TradeTicketRuns :
                    \A y \in TradeTicketRuns : tickets[y].created_at <= tickets[x].created_at
         IN tickets[q].ticket_id

intended_count_of(tid) ==
    SumOver(Runs, [q \in Runs |->
        Cardinality({x \in ledger_trades_intended[q] : x.ticket_id = tid})])

confirmed_fills_of(tid) == Cardinality({x \in ledger_trades_fills : x.ticket_id = tid})

confirm_ok ==
    IF latest_trade_ticket # NoTicketId
    THEN ~(intended_count_of(latest_trade_ticket) > 0
           /\ confirmed_fills_of(latest_trade_ticket) < intended_count_of(latest_trade_ticket))
    ELSE TRUE

universe_ok(f) == f.unverified_enabled = 0
ledger_ok(f) == (f.cash_movements + Cardinality(ledger_trades_fills)) > 0

(* rank is null. *)
NoRank == 0

(* order by rank nulls last, internal_symbol, riskguard_run.py:340.        *)
SignalKey(row) ==
    IF row.rank = NoRank THEN <<1, 0, row.internal_symbol>>
    ELSE <<0, row.rank, row.internal_symbol>>

RECURSIVE OrderSignals(_)
OrderSignals(rows) ==
    IF rows = {} THEN <<>>
    ELSE LET m == CHOOSE x \in rows : \A y \in rows : ~LexLess(SignalKey(y), SignalKey(x))
         IN <<m.internal_symbol>> \o OrderSignals(rows \ {m})

(* The signals_ranked rows of the run as the query of 335-342 returns      *)
(* them.                                                                   *)
signals(f) == OrderSignals(f.signals)

top_All(f) == signals(f)

(* Signal-to-weight allocation, riskguard_run.py:330-354.                  *)
top(f) ==
    LET n == Max(1, Min(f.max_positions, 9999))
    IN SubSeq(signals(f), 1, Min(n, Len(signals(f))))

targets(f) ==
    LET budget == Max(0, 100 - f.min_cash_buffer)
        sel == top(f)
    IN IF Len(sel) = 0 THEN {}
       ELSE {[internal_symbol |-> sel[i],
              target_weight |-> Min(f.max_position_weight, budget \div Len(sel)),
              target_value_base |-> NoTargetValue,
              asof_date |-> AsofOf(f)] : i \in 1..Len(sel)}

(* portfolio_targets of the run after riskguard_run.py:356-370.            *)
TargetsAfter(r, f) == IF AsofOf(f) # NoAsof THEN targets(f) ELSE portfolio_targets[r]

(* The trade_builder check, riskguard_run.py:387-420.                      *)
TbCall(r, f) ==
    IF ~_bool_env(f) THEN [status |-> "disabled"]
    ELSE IF f.tb_raises THEN [status |-> "error"]
    ELSE [status |-> "returned", tb |-> TbOutcome(f, TargetsAfter(r, f), AsofOf(f))]

trade_builder_ok(call) == call.status = "returned" /\ call.tb.ok
intended_count_AtLeastOne(call) ==
    IF call.status = "returned" THEN Max(1, call.tb.intended_count) ELSE 0
intended_count(call) == IF call.status = "returned" THEN call.tb.intended_count ELSE 0

TbReasons_Doubled(call) ==
    IF call.status = "disabled" THEN <<"DRYRUN_TRADES_DISABLED", "TRADE_BUILDER_BLOCKED">>
    ELSE IF call.status = "error" THEN <<"TRADE_BUILDER_FAILED">>
    ELSE Opt(~call.tb.ok, "TRADE_BUILDER_BLOCKED")
TbReasons(call) ==
    IF call.status = "disabled" THEN <<"DRYRUN_TRADES_DISABLED">>
    ELSE IF call.status = "error" THEN <<"TRADE_BUILDER_FAILED">>
    ELSE Opt(~call.tb.ok, "TRADE_BUILDER_BLOCKED")

NoRebalanceReason_Dropped(f, call) == <<>>
NoRebalanceReason(f, call) ==
    Opt(_bool_env(f) /\ trade_builder_ok(call) /\ intended_count(call) = 0, "NO_REBALANCE")

reasons(f, call) ==
    Opt(~dq_ok(f), "DATA_QUALITY_FAIL")
    \o Opt(f.reconcile_required /\ ~reconcile_ok(f), "RECONCILIATION_REQUIRED")
    \o Opt(~confirm_ok, "CONFIRMATION_MISSING")
    \o Opt(~universe_ok(f), "UNIVERSE_NOT_VERIFIED")
    \o Opt(~ledger_ok(f), "LEDGER_EMPTY")
    \o TbReasons(call)
    \o NoRebalanceReason(f, call)

risk_checks_of(f, call) ==
    <<[name |-> "data_quality", passed |-> dq_ok(f)],
      [name |-> "reconciliation", passed |-> reconcile_ok(f)],
      [name |-> "confirmations", passed |-> confirm_ok],
      [name |-> "universe_verified", passed |-> universe_ok(f)],
      [name |-> "ledger_ready", passed |-> ledger_ok(f)],
      [name |-> "trade_builder", passed |-> trade_builder_ok(call)]>>

approved_ChecksOnly(rsns, checks) == \A i \in 1..Len(checks) : checks[i].passed
approved(rsns, checks) ==
    Len(rsns) = 0 /\ \A i \in 1..Len(checks) : checks[i].passed

decision_type_of(appr) == IF appr THEN "TRADE" ELSE "NO_TRADE"

(* insert ... on conflict (run_id, check_name) do update, 429-437.         *)
UpsertChecks(rows, checks) ==
    {x \in rows : \A i \in 1..Len(checks) : checks[i].name # x.check_name}
    \cup {[check_name |-> checks[i].name, passed |-> checks[i].passed] : i \in 1..Len(checks)}

(* What riskguard_run.main persists, 403 and 429-487, given the outcome of *)
(* the trade_builder call, the reasons, the checks and the verdict.        *)
Persist(r, call, rsns, checks, appr) ==
    /\ IF call.status = "returned"
       THEN TbEffects(r, call.tb)
       ELSE UNCHANGED <<tb_result, trades_intended_json, ledger_trades_intended>>
    /\ risk_checks' = [risk_checks EXCEPT ![r] = UpsertChecks(risk_checks[r], checks)]
    /\ decisions' = [decisions EXCEPT ![r] =
          [present |-> TRUE, approved |-> appr, decision_type |-> decision_type_of(appr),
           reasons |-> rsns]]
    /\ IF appr
       THEN /\ trades_approved_json' = [trades_approved_json EXCEPT ![r] =
                  [present |-> TRUE, intended_trades_count |-> intended_count(call)]]
            /\ UNCHANGED no_trade_json
       ELSE /\ no_trade_json' = [no_trade_json EXCEPT ![r] =
                  [present |-> TRUE, reasons |-> rsns, risk_checks |-> checks]]
            /\ UNCHANGED trades_approved_json
    /\ last_eval' = [last_eval EXCEPT ![r] =
          [present |-> TRUE, risk_checks |-> checks, tb_status |-> call.status,
           intended_count |-> intended_count(call)]]

(* The reasons, the checks and the verdict, 205-427, from the facts and    *)
(* the outcome of the trade_builder call.                                  *)
Evaluate(r, f, call) ==
    Persist(r, call, reasons(f, call), risk_checks_of(f, call),
            approved(reasons(f, call), risk_checks_of(f, call)))

(* riskguard_run.main, 175-487.                                            *)
RiskguardMain(r) ==
    /\ Step
    /\ portfolio_targets' = [portfolio_targets EXCEPT ![r] = TargetsAfter(r, facts)]
    /\ Evaluate(r, facts, TbCall(r, facts))
    /\ UNCHANGED <<sched, pair, confirmations, audit_log, submission, proc, facts, tickets, ledger_trades_fills, clock, passes>>

(***************************************************************************)
(* Ticket materializer, scripts/ticket_render.py.                          *)
(***************************************************************************)
(* uuid5(TICKET_NAMESPACE, run_id:decision_type), ticket_render.py:333-334: *)
(* a deterministic identifier, distinct for distinct (run, decision type). *)
uuid5(r, decision_type) == r * 10 + (IF decision_type = "TRADE" THEN 1 ELSE 2)

(* to_char(created_at, 'YYYY-MM-DD"T"HH24:MI:SS"Z"') and strftime of the   *)
(* same format: the clock counts half seconds, the text shows seconds.     *)
FormatUtc(t) == t \div 2

(* _fmt_decimal(value, decimals), 26-47: ROUND_HALF_UP to the given number *)
(* of decimals; the result is the count of units of the last decimal, and  *)
(* None for None.                                                          *)
(* Money is in 1/200, so 2 decimals halve it and 4 decimals multiply by 50. *)
_fmt_decimal_2(v) ==
    IF v = NoNumber THEN NoNumber
    ELSE IF v >= 0 THEN (v + 1) \div 2 ELSE 0 - ((1 - v) \div 2)
_fmt_decimal_4_Coarse(v) == (v + 1) \div 2

_fmt_decimal_4(v) == IF v = NoNumber THEN NoNumber ELSE v * 50
_fmt_decimal_6(u) == IF u = NoNumber THEN NoNumber ELSE u * 1000000

side_order(side) == IF side = "BUY" THEN 0 ELSE IF side = "SELL" THEN 1 ELSE 9

(* The order of the executed_status strings: DONE < FAILED < PARTIAL <     *)
(* SKIPPED.                                                                *)
status_order(st) ==
    IF st = "DONE" THEN 0 ELSE IF st = "FAILED" THEN 1 ELSE IF st = "PARTIAL" THEN 2 ELSE 3

(* The sort keys of 107-118 and 147-156 over the canonical entries. The    *)
(* formatted decimals are compared as numbers and the side of a fill by    *)
(* its rank: every key covers every field of its entry, so entries with    *)
(* equal keys are equal entries under either order.                        *)
TradeKey(t) == <<t.internal_symbol, side_order(t.side), t.units, t.notional_value_base, t.reference_price>>

FillKey(x) ==
    <<x.internal_symbol, side_order(x.side), status_order(x.executed_status),
      x.units, x.fill_price, x.executed_value_base>>

(* list.sort(key=...): a stable sort. The element at position k of the     *)
(* result is the one that k-1 elements precede: those with a smaller key   *)
(* and those with an equal key that come earlier in the input.             *)
StableOrder(keys) ==
    [k \in 1..Len(keys) |->
        CHOOSE i \in 1..Len(keys) :
            Cardinality({j \in 1..Len(keys) :
                            \/ LexLess(keys[j], keys[i])
                            \/ (~LexLess(keys[i], keys[j]) /\ j < i)}) = k - 1]

SortTrades(sq) ==
    LET ord == StableOrder([i \in 1..Len(sq) |-> TradeKey(sq[i])])
    IN [k \in 1..Len(sq) |-> sq[ord[k]]]

SortFills(sq) ==
    LET ord == StableOrder([i \in 1..Len(sq) |-> FillKey(sq[i])])
    IN [k \in 1..Len(sq) |-> sq[ord[k]]]

Range(sq) == {sq[i] : i \in 1..Len(sq)}

(* The position of a check name in the fixed order of 57-64.               *)
CheckOrder(name) == CHOOSE i \in 1..Len(CheckNames) : CheckNames[i] = name

IsKnownCheck(rc) == rc.name \in KnownChecks

(* 65-75 and 158: name and pass flag of the checks with a known name, in   *)
(* the fixed order of the names.                                           *)
MaterialChecks(risk_checks_in) ==
    LET known == SelectSeq(risk_checks_in, IsKnownCheck)
        ord == StableOrder([i \in 1..Len(known) |-> <<CheckOrder(known[i].name)>>])
    IN [k \in 1..Len(known) |->
          [name |-> known[ord[k]].name, passed |-> known[ord[k]].passed]]

(* 77-87: sorted(set(codes)), the detail text of a reason is not read. The *)
(* sorted list of distinct codes is represented by their set.              *)
MaterialReasonCodes(blocking_reasons) == {b.code : b \in Range(blocking_reasons)}

(* 89-106: the canonical entry of an intended trade.                       *)
TradeEntry(t) ==
    [internal_symbol |-> t.internal_symbol, side |-> t.side,
     units |-> IF t.units > 0 THEN _fmt_decimal_6(t.units) ELSE 0,
     notional_value_base |-> _fmt_decimal_2(t.notional_value_base),
     reference_price |-> _fmt_decimal_4(t.reference_price)]

FillEntry_WithSequence(x) ==
    [internal_symbol |-> x.internal_symbol, side |-> x.side,
     executed_status |-> x.executed_status,
     units |-> _fmt_decimal_6(x.units),
     fill_price |-> _fmt_decimal_4(x.fill_price),
     executed_value_base |-> _fmt_decimal_2(x.executed_value_base),
     sequence |-> x.sequence]

(* 121-146: the canonical entry of a confirmed fill; sequence, filled_at   *)
(* and notes are not copied.                                               *)
FillEntry(x) ==
    [internal_symbol |-> x.internal_symbol, side |-> x.side,
     executed_status |-> x.executed_status,
     units |-> _fmt_decimal_6(x.units),
     fill_price |-> _fmt_decimal_4(x.fill_price),
     executed_value_base |-> _fmt_decimal_2(x.executed_value_base)]

(* _economic_material_input, 50-169.                                       *)
_economic_material_input(payload) ==
    [decision_type |-> payload.decision_type,
     asof_date |-> payload.asof_date,
     risk_checks |-> MaterialChecks(payload.risk_checks),
     blocking_reason_codes |-> MaterialReasonCodes(payload.blocking_reasons),
     intended_trades |->
        SortTrades([i \in 1..Len(payload.intended_trades) |-> TradeEntry(payload.intended_trades[i])]),
     confirmed_fills |->
        SortFills([i \in 1..Len(payload.confirmed_fills) |-> FillEntry(payload.confirmed_fills[i])])]

(* hashlib.sha256 over the canonical serialization, 828-830: the digest is *)
(* represented by the payload it is computed from.                         *)
material_hash_of(material_input) == material_input

(* _load_risk_checks_for_run, 402-434: the rows of the six known names in  *)
(* their fixed order.                                                      *)
_load_risk_checks_for_run(r) ==
    LET present == {i \in 1..Len(CheckNames) :
                       \E x \in risk_checks[r] : x.check_name = CheckNames[i]}
        idx == SortedSeq(present)
    IN [k \in 1..Len(idx) |->
          [name |-> CheckNames[idx[k]],
           passed |-> (CHOOSE x \in risk_checks[r] : x.check_name = CheckNames[idx[k]]).passed]]

decision_type_rendered(r) == IF no_trade_json[r].present THEN "NO_TRADE" ELSE "TRADE"

_get_or_create_ticket_id(r, decision_type) ==
    IF tickets[r].present THEN tickets[r].ticket_id ELSE uuid5(r, decision_type)

(* The fixed detail text that riskguard writes next to a reason code.       *)
ReasonDetail(code) == 0

(* no_trade.json reasons as the payload carries them: code and detail.     *)
BlockingReasons(codes) ==
    [i \in 1..Len(codes) |-> [code |-> codes[i], detail |-> ReasonDetail(codes[i])]]

(* _load_confirmed_fills, 436-471: the fills of the ticket, order by       *)
(* sequence.                                                               *)
_load_confirmed_fills(ticket_id) ==
    LET rows == {x \in ledger_trades_fills : x.ticket_id = ticket_id}
        seqs == SortedSeq({x.sequence : x \in rows})
    IN [k \in 1..Len(seqs) |-> CHOOSE x \in rows : x.sequence = seqs[k]]

created_utc(r) ==
    IF tickets[r].present THEN FormatUtc(tickets[r].created_at) ELSE FormatUtc(clock)

TicketPayload(r) ==
    LET decision_type == decision_type_rendered(r)
        ticket_id == _get_or_create_ticket_id(r, decision_type)
        db_checks == _load_risk_checks_for_run(r)
    IN [ticket_id |-> ticket_id,
        run_id |-> r,
        asof_date |-> AsofOf(facts),
        created_utc |-> created_utc(r),
        decision_type |-> decision_type,
        risk_checks |->
            IF Len(db_checks) > 0 THEN db_checks
            ELSE IF no_trade_json[r].present THEN no_trade_json[r].risk_checks ELSE <<>>,
        blocking_reasons |->
            IF no_trade_json[r].present THEN BlockingReasons(no_trade_json[r].reasons) ELSE <<>>,
        intended_trades |->
            IF trades_intended_json[r].present THEN trades_intended_json[r].intended_trades ELSE <<>>,
        confirmed_fills |-> _load_confirmed_fills(ticket_id)]

(* tickets.created_at of a new row: the store's clock when the row is      *)
(* inserted, some time after the renderer read its own clock (739).        *)
StoreInsertTime == clock + 1

UpsertTicket_StaleHashFile(old, payload, hash, insert_time) ==
    IF old.present
    THEN [old EXCEPT !.ticket_type = payload.decision_type,
                     !.rendered_json = payload,
                     !.material_hash = hash]
    ELSE [present |-> TRUE, ticket_id |-> payload.ticket_id,
          ticket_type |-> payload.decision_type, created_at |-> insert_time,
          rendered_json |-> payload,
          material_hash |-> hash, material_hash_txt |-> hash]

(* insert into tickets ... on conflict (run_id) do update, 845-861: a new  *)
(* row takes the store's time of insertion as created_at, an existing row  *)
(* keeps ticket_id and created_at.                                         *)
UpsertTicket(old, payload, hash, insert_time) ==
    IF old.present
    THEN [old EXCEPT !.ticket_type = payload.decision_type,
                     !.rendered_json = payload,
                     !.material_hash = hash,
                     !.material_hash_txt = hash]
    ELSE [present |-> TRUE, ticket_id |-> payload.ticket_id,
          ticket_type |-> payload.decision_type, created_at |-> insert_time,
          rendered_json |-> payload,
          material_hash |-> hash, material_hash_txt |-> hash]

(* update ledger_trades_intended set ticket_id = ..., 864-871.             *)
LinkIntended(rows, ticket_id) == {[x EXCEPT !.ticket_id = ticket_id] : x \in rows}

KeepLast2(sq) == IF Len(sq) > 2 THEN SubSeq(sq, Len(sq) - 1, Len(sq)) ELSE sq

(* ticket_render.main, 724-877.                                            *)
TicketRender(r) ==
    LET payload == TicketPayload(r)
        hash == material_hash_of(_economic_material_input(payload))
    IN /\ Step
       /\ tickets' = [tickets EXCEPT ![r] = UpsertTicket(tickets[r], payload, hash, StoreInsertTime)]
       /\ clock' = IF tickets[r].present THEN clock ELSE StoreInsertTime
       /\ ledger_trades_intended' =
             [ledger_trades_intended EXCEPT ![r] = LinkIntended(ledger_trades_intended[r], payload.ticket_id)]
       /\ passes' = [passes EXCEPT ![r] =
             IF last_eval[r].present
             THEN KeepLast2(Append(passes[r],
                    [decision |-> decisions[r], risk_checks |-> last_eval[r].risk_checks,
                     ticket_id |-> payload.ticket_id, created_utc |-> payload.created_utc,
                     material_hash |-> hash]))
             ELSE passes[r]]
       /\ last_eval' = [last_eval EXCEPT ![r] = [present |-> FALSE]]
       /\ UNCHANGED <<sched, pair, confirmations, audit_log, submission, proc, facts, portfolio_targets, trades_intended_json, tb_result, risk_checks,
                      decisions, no_trade_json, trades_approved_json, ledger_trades_fills>>

(***************************************************************************)
(* Confirmation reconciler, scripts/confirmations_submit.py (fills mode).  *)
(***************************************************************************)
(* internal_symbol "" of a fill. *)
EmptySymbol == 0

(* str.upper().strip() on the side and status texts an operator may write. *)
Upper(text) ==
    IF text = "buy" THEN "BUY"
    ELSE IF text = "done" THEN "DONE"
    ELSE text

(* float(units) * float(fill_price), 182-183; units are halves and money   *)
(* is in 1/200.                                                            *)
ExecutedValue(f) ==
    IF f.executed_value_base = NoNumber /\ f.units # NoNumber /\ f.fill_price # NoNumber
    THEN (f.units * f.fill_price) \div 2
    ELSE f.executed_value_base

(* isinstance(seq, int) and seq >= 1, 167: bool is a subclass of int in    *)
(* Python, so the JSON value true passes as the integer 1.                 *)
SequenceAccepted(seq) == seq.kind \in {"int", "bool"} /\ seq.v >= 1

(* The checks of _load_fills on one fill, 164-192. filled_at: 0 absent,    *)
(* 1 an ISO-8601 text, 2 a text without "T".                               *)
FillAccepted(f) ==
    /\ SequenceAccepted(f.sequence)
    /\ f.internal_symbol # EmptySymbol
    /\ Upper(f.side) \in {"BUY", "SELL"}
    /\ Upper(f.executed_status) \in {"DONE", "SKIPPED", "FAILED", "PARTIAL"}
    /\ ~(ExecutedValue(f) # NoNumber /\ ExecutedValue(f) < 0)
    /\ ~(f.units # NoNumber /\ f.units < 0)
    /\ ~(f.fill_price # NoNumber /\ f.fill_price < 0)
    /\ ~(Upper(f.executed_status) \in {"DONE", "PARTIAL"} /\ f.filled_at = 2)

(* out.append(...), 194-206. *)
LoadedFill(f) ==
    [sequence |-> f.sequence.v, internal_symbol |-> f.internal_symbol,
     side |-> Upper(f.side), executed_status |-> Upper(f.executed_status),
     units |-> f.units, fill_price |-> f.fill_price,
     executed_value_base |-> ExecutedValue(f),
     filled_at |-> f.filled_at, notes |-> f.notes]

(* _load_fills, 150-211: every fill is checked, the first bad one raises;  *)
(* the accepted fills are returned sorted by sequence.                     *)
_load_fills(raw) ==
    LET ok == \A i \in 1..Len(raw) : FillAccepted(raw[i])
        ord == StableOrder([i \in 1..Len(raw) |-> <<raw[i].sequence.v>>])
    IN [ok |-> ok,
        fills |-> IF ok THEN [k \in 1..Len(raw) |-> LoadedFill(raw[ord[k]])] ELSE <<>>]

(* The row of one "insert into ledger_trades_fills", 334-356. *)
FillRow(ticket_id, f) ==
    [ticket_id |-> ticket_id, sequence |-> f.sequence, internal_symbol |-> f.internal_symbol,
     side |-> f.side, executed_status |-> f.executed_status, units |-> f.units,
     fill_price |-> f.fill_price, executed_value_base |-> f.executed_value_base,
     filled_at |-> f.filled_at, notes |-> f.notes]

(* The inserts of 319-357 in order, each "on conflict (ticket_id,          *)
(* sequence) do update": of the fills with one sequence the last stays.    *)
UpsertFills(table, ticket_id, fills) ==
    {x \in table :
        ~(x.ticket_id = ticket_id /\ \E i \in 1..Len(fills) : fills[i].sequence = x.sequence)}
    \cup {FillRow(ticket_id, fills[i]) :
            i \in {k \in 1..Len(fills) :
                     \A j \in (k + 1)..Len(fills) : fills[j].sequence # fills[k].sequence}}

ModeAllowed_Any(mode, decision_type, allow) == TRUE

(* 264-268: --ack-no-trade needs a NO_TRADE ticket; --fills-json needs a   *)
(* TRADE ticket unless --allow-non-trade-ticket is given.                  *)
ModeAllowed(mode, decision_type, allow) ==
    /\ mode = "ack" => decision_type = "NO_TRADE"
    /\ mode = "fills" => (decision_type = "TRADE" \/ allow)

(* uuid.uuid4(), 271: a fresh identifier, here the number of the           *)
(* invocation.                                                             *)
uuid4 == ops + 1

(* The transaction of 359-377: one confirmations row, the fill rows, one   *)
(* audit_log row.                                                          *)
PersistConfirmation(ticket_id, mode, fills) ==
    /\ confirmations' = confirmations \cup
          {[confirmation_uuid |-> uuid4, ticket_id |-> ticket_id,
            confirmation_type |-> IF mode = "fills" THEN "TRADE_FILLS" ELSE "ACK_NO_TRADE",
            fills |-> Len(fills)]}
    /\ ledger_trades_fills' = UpsertFills(ledger_trades_fills, ticket_id, fills)
    /\ audit_log' = audit_log \cup
          {[ticket_id |-> ticket_id, action |-> "CONFIRMATION_SUBMITTED", object_id |-> uuid4]}

(* confirmations_submit.main with --run-id, 238-384. mode is "ack"         *)
(* (--ack-no-trade) or "fills" (--fills-json with the content raw), allow  *)
(* is --allow-non-trade-ticket. A submission that raises leaves the store  *)
(* as it was.                                                              *)
Submit(r, mode, allow, raw, loaded) ==
    /\ Step
    /\ tickets[r].present
    /\ submission' =
          [present |-> TRUE, at |-> uuid4, run_id |-> r, mode |-> mode, allow |-> allow,
           decision_type |-> tickets[r].rendered_json.decision_type, fills |-> raw,
           accepted |-> ModeAllowed(mode, tickets[r].rendered_json.decision_type, allow) /\ loaded.ok]
    /\ IF ModeAllowed(mode, tickets[r].rendered_json.decision_type, allow) /\ loaded.ok
       THEN PersistConfirmation(tickets[r].ticket_id, mode, loaded.fills)
       ELSE UNCHANGED <<confirmations, ledger_trades_fills, audit_log>>
    /\ UNCHANGED <<sched, pair, proc, facts, portfolio_targets, ledger_trades_intended, trades_intended_json,
                   tb_result, risk_checks, decisions, no_trade_json, trades_approved_json,
                   tickets, clock, last_eval, passes>>

NoFills == [ok |-> TRUE, fills |-> <<>>]

ConfirmationsSubmitMain(r, mode, allow, raw) ==
    Submit(r, mode, allow, raw, IF mode = "fills" THEN _load_fills(raw) ELSE NoFills)

(* The fills JSON an operator writes for executed intended trades. *)
ReportFor(trades) ==
    [i \in 1..Len(trades) |->
        [sequence |-> [kind |-> "int", v |-> trades[i].sequence],
         internal_symbol |-> trades[i].internal_symbol,
         side |-> trades[i].side, executed_status |-> "DONE", units |-> trades[i].units,
         fill_price |-> trades[i].reference_price,
         executed_value_base |-> trades[i].notional_value_base,
         filled_at |-> 1, notes |-> 0]]

(* The operator of the pipeline reports fills for the first or for all of  *)
(* the intended trades of a TRADE ticket.                                  *)
ConfirmationsSubmit(r) ==
    /\ tickets[r].present
    /\ tickets[r].rendered_json.decision_type = "TRADE"
    /\ \E n \in {1, Len(tickets[r].rendered_json.intended_trades)} :
          /\ n \in 1..Len(tickets[r].rendered_json.intended_trades)
          /\ ConfirmationsSubmitMain(r, "fills", FALSE,
                ReportFor(SubSeq(tickets[r].rendered_json.intended_trades, 1, n)))

(***************************************************************************)
(* Sizing inputs.                                                          *)
(***************************************************************************)
CashChoices == {-2, 0, 7}
HoldChoices == {0, 1, 4}
PriceChoices == {1, 3}
TargetChoices ==
    {[present |-> FALSE, target_weight |-> 0, target_value_base |-> NoTargetValue],
     [present |-> TRUE, target_weight |-> 50, target_value_base |-> NoTargetValue],
     [present |-> TRUE, target_weight |-> 0, target_value_base |-> 3]}
MinNotionalChoices ==
    {[abs |-> 0, pct |-> 0], [abs |-> 2, pct |-> 0], [abs |-> 2, pct |-> 10], [abs |-> 25, pct |-> 1]}

TargetsFrom(tc, asof_date) ==
    {[internal_symbol |-> s, target_weight |-> tc[s].target_weight,
      target_value_base |-> tc[s].target_value_base, asof_date |-> asof_date]
     : s \in {x \in Symbols : tc[x].present}}

DefaultSizing ==
    [cash |-> 7, positions |-> [s \in Symbols |-> IF s = 1 THEN 4 ELSE 0],
     prices |-> [s \in Symbols |-> 1], min_notional_abs |-> 0, min_notional_pct |-> 0]

SizingInputs ==
    {[cash |-> c, positions |-> pos, prices |-> px,
      min_notional_abs |-> mn.abs, min_notional_pct |-> mn.pct]
     : c \in CashChoices, pos \in [Symbols -> HoldChoices],
       px \in [Symbols -> PriceChoices], mn \in MinNotionalChoices}

(* signals_ranked rows that rank the given instruments in the given order. *)
Ranked(sq) == {[internal_symbol |-> sq[i], rank |-> i] : i \in 1..Len(sq)}

DefaultFacts ==
    [dq |-> "t", run_asof |-> "d1", reconcile_required |-> TRUE, reconcile_window |-> TRUE,
     unverified_enabled |-> 0, cash_movements |-> 1, dryrun_env |-> "true",
     tb_raises |-> FALSE, sizing |-> DefaultSizing, signals |-> Ranked(<<2>>),
     max_positions |-> 2, max_position_weight |-> 10, min_cash_buffer |-> 4]

EmptyTables ==
    /\ ledger_trades_intended = [r \in Runs |-> {}]
    /\ trades_intended_json = [r \in Runs |-> NoFile]
    /\ tb_result = [r \in Runs |-> NoResult]
    /\ risk_checks = [r \in Runs |-> {}]
    /\ decisions = [r \in Runs |-> NoDecision]
    /\ no_trade_json = [r \in Runs |-> NoFile]
    /\ trades_approved_json = [r \in Runs |-> NoFile]
    /\ tickets = [r \in Runs |-> NoTicket]
    /\ ledger_trades_fills = {}
    /\ clock = 0
    /\ proc = [r \in Runs |-> Idle]
    /\ confirmations = {}
    /\ audit_log = {}
    /\ submission = NoSubmission
    /\ last_eval = [r \in Runs |-> [present |-> FALSE]]
    /\ passes = [r \in Runs |-> <<>>]
    /\ sched = NoSched

EmptyStore == EmptyTables /\ pair = NoPair

(***************************************************************************)
(* The pipeline: evaluations, renders and fill submissions for any run, in *)
(* any order, while the facts change and time passes.                      *)
(***************************************************************************)
NoRebalanceSizing == [DefaultSizing EXCEPT !.min_notional_abs = 25]

FactChoices ==
    {[DefaultFacts EXCEPT !.dq = d, !.sizing = z] :
        d \in {"t", "f"}, z \in {DefaultSizing, NoRebalanceSizing}}

FactsChange ==
    /\ Step
    /\ \E f \in FactChoices \ {facts} : facts' = f
    /\ UNCHANGED <<sched, pair, confirmations, audit_log, submission, proc, portfolio_targets, ledger_trades_intended, trades_intended_json,
                   tb_result, risk_checks, decisions, no_trade_json, trades_approved_json,
                   tickets, ledger_trades_fills, clock, last_eval, passes>>

Tick ==
    /\ Step
    /\ clock' = clock + 1
    /\ UNCHANGED <<sched, pair, confirmations, audit_log, submission, proc, facts, portfolio_targets, ledger_trades_intended, trades_intended_json,
                   tb_result, risk_checks, decisions, no_trade_json, trades_approved_json,
                   tickets, ledger_trades_fills, last_eval, passes>>

Init ==
    /\ facts = DefaultFacts
    /\ portfolio_targets = [r \in Runs |-> {}]
    /\ EmptyStore
    /\ ops = 0

Next ==
    \/ \E r \in Runs : RiskguardMain(r)
    \/ \E r \in Runs : TicketRender(r)
    \/ \E r \in Runs : ConfirmationsSubmit(r)
    \/ FactsChange
    \/ Tick

Spec == Init /\ [][Next]_vars

(***************************************************************************)
(* The gate under every combination of facts; the facts stay as they are.  *)
(***************************************************************************)
MissingPriceSizing == [DefaultSizing EXCEPT !.prices[2] = 0]

GateFacts ==
    {[dq |-> d, run_asof |-> a, reconcile_required |-> rr, reconcile_window |-> rw,
      unverified_enabled |-> u, cash_movements |-> cm, dryrun_env |-> e, tb_raises |-> x,
      sizing |-> z, signals |-> Ranked(sg), max_positions |-> 2, max_position_weight |-> 10,
      min_cash_buffer |-> 4]
     : d \in {"none", "t", "f"}, a \in {NoAsof, "d1"}, rr \in BOOLEAN, rw \in BOOLEAN,
       u \in {0, 1}, cm \in {0, 1}, e \in {"unset", "on", "true"}, x \in BOOLEAN,
       z \in {DefaultSizing, NoRebalanceSizing, MissingPriceSizing}, sg \in {<<>>, <<2>>}}

Init_Gate ==
    /\ facts \in GateFacts
    /\ portfolio_targets = [r \in Runs |-> {}]
    /\ EmptyStore
    /\ ops = MaxOps - 3

Next_Gate ==
    \/ \E r \in Runs : RiskguardMain(r)
    \/ \E r \in Runs : TicketRender(r)

Spec_Gate == Init_Gate /\ [][Next_Gate]_vars

(***************************************************************************)
(* Repeated passes over a run with the facts fixed and no fills submitted. *)
(***************************************************************************)
Next_Idem ==
    \/ \E r \in Runs : RiskguardMain(r)
    \/ \E r \in Runs : TicketRender(r)
    \/ Tick

Spec_Idem == Init /\ [][Next_Idem]_vars

(***************************************************************************)
(* Confirmation submissions of every kind against the ticket of a run:     *)
(* acknowledgements and fills, with and without --allow-non-trade-ticket,  *)
(* with well-formed and malformed fills.                                   *)
(***************************************************************************)
GoodFill ==
    [sequence |-> [kind |-> "int", v |-> 1], internal_symbol |-> 1, side |-> "SELL",
     executed_status |-> "DONE", units |-> 2, fill_price |-> 200,
     executed_value_base |-> NoNumber, filled_at |-> 1, notes |-> 0]

(* JSON values a fills file may carry as "sequence": integers, booleans,   *)
(* a string, a float, null.                                                *)
SequenceChoices ==
    {[kind |-> "int", v |-> 2], [kind |-> "int", v |-> 0], [kind |-> "bool", v |-> 1],
     [kind |-> "bool", v |-> 0], [kind |-> "str", v |-> 1], [kind |-> "float", v |-> 1],
     [kind |-> "null", v |-> 0]}

RawFillChoices ==
    {GoodFill}
    \cup {[GoodFill EXCEPT !.sequence = q] : q \in SequenceChoices}
    \cup {[GoodFill EXCEPT !.internal_symbol = EmptySymbol]}
    \cup {[GoodFill EXCEPT !.side = d] : d \in {"HOLD", "buy"}}
    \cup {[GoodFill EXCEPT !.executed_status = st] : st \in {"CANCELLED", "done", "SKIPPED"}}
    \cup {[GoodFill EXCEPT !.executed_value_base = -1], [GoodFill EXCEPT !.units = -1],
          [GoodFill EXCEPT !.fill_price = -1], [GoodFill EXCEPT !.filled_at = 2],
          [GoodFill EXCEPT !.units = NoNumber]}

SecondFill == [GoodFill EXCEPT !.sequence = [kind |-> "int", v |-> 2], !.internal_symbol = 2]

FillsJsonChoices ==
    {<<f>> : f \in RawFillChoices}
    \cup {<<SecondFill, f>> : f \in RawFillChoices}
    \cup {<<f, SecondFill>> : f \in RawFillChoices}

SubmitAny(r) ==
    \E mode \in {"ack", "fills"}, allow \in BOOLEAN, raw \in FillsJsonChoices :
        /\ mode = "ack" => raw = <<GoodFill>>
        /\ ConfirmationsSubmitMain(r, mode, allow, IF mode = "ack" THEN <<>> ELSE raw)

ConfirmSteps == 3

Init_Confirm ==
    /\ facts \in {DefaultFacts, [DefaultFacts EXCEPT !.dq = "f"]}
    /\ portfolio_targets = [r \in Runs |-> {}]
    /\ EmptyStore
    /\ ops = MaxOps - ConfirmSteps

Next_Confirm ==
    \/ \E r \in Runs : RiskguardMain(r)
    \/ \E r \in Runs : TicketRender(r)
    \/ \E r \in Runs : SubmitAny(r)

Spec_Confirm == Init_Confirm /\ [][Next_Confirm]_vars

(***************************************************************************)
(* The allocator under ranked signals of every shape and every policy of   *)
(* the valid domain (policy_validate.py:70-90: max_positions 1..50,        *)
(* max_position_weight and min_cash_buffer 0..10 percent). DRYRUN_TRADES   *)
(* is unset, so the evaluation does not call the sizing engine.            *)
(***************************************************************************)
MaxSignals == 12

SignalCounts == {0, 1, 2, 3, MaxSignals - 2, MaxSignals - 1, MaxSignals}

(* Rankings: by id, against the id, with ties, with null ranks. *)
RankPatterns == {"id", "reverse", "tied", "nulls"}

RankOf(pattern, i, n) ==
    IF pattern = "id" THEN i
    ELSE IF pattern = "reverse" THEN n + 1 - i
    ELSE IF pattern = "tied" THEN 1 + (i % 2)
    ELSE IF i % 3 = 0 THEN NoRank ELSE n + 1 - i

SignalRows(pattern, n) == {[internal_symbol |-> i, rank |-> RankOf(pattern, i, n)] : i \in 1..n}

AllocFacts ==
    {[DefaultFacts EXCEPT !.dryrun_env = "unset", !.signals = SignalRows(pt, n),
                          !.max_positions = mp, !.max_position_weight = mw,
                          !.min_cash_buffer = cb]
     : pt \in RankPatterns, n \in SignalCounts, mp \in {1, 2, 5, MaxSignals - 1, 50},
       mw \in {0, 8, 10}, cb \in {0, 3, 10}}

Init_Alloc ==
    /\ facts \in AllocFacts
    /\ portfolio_targets = [r \in Runs |-> {}]
    /\ EmptyStore
    /\ ops = MaxOps - 2

Next_Alloc == \E r \in Runs : RiskguardMain(r)

Spec_Alloc == Init_Alloc /\ [][Next_Alloc]_vars

(***************************************************************************)
(* Two ticket payloads and their material hashes: the second payload       *)
(* starts as a copy of the first and is edited field by field, then both   *)
(* are hashed as ticket_render.main hashes a payload (827-830).            *)
(***************************************************************************)
NoEdit == [kind |-> "none", old |-> 0, new |-> 0]

BaseChecks == [i \in 1..Len(CheckNames) |-> [name |-> CheckNames[i], passed |-> TRUE, detail |-> 0]]

BaseReasons ==
    <<[code |-> "DATA_QUALITY_FAIL", detail |-> 0], [code |-> "NO_REBALANCE", detail |-> 0]>>

BaseTrades ==
    <<[sequence |-> 1, internal_symbol |-> 1, side |-> "SELL", units |-> 2,
       notional_value_base |-> 400, reference_price |-> 200],
      [sequence |-> 2, internal_symbol |-> 2, side |-> "BUY", units |-> 3,
       notional_value_base |-> 201, reference_price |-> 67]>>

BaseFills ==
    <<[sequence |-> 1, internal_symbol |-> 1, side |-> "SELL", executed_status |-> "DONE",
       units |-> 2, fill_price |-> 200, executed_value_base |-> 400, filled_at |-> 0, notes |-> 0],
      [sequence |-> 2, internal_symbol |-> 2, side |-> "BUY", executed_status |-> "PARTIAL",
       units |-> 1, fill_price |-> 201, executed_value_base |-> 201, filled_at |-> 0, notes |-> 0]>>

BasePayload(decision_type, rsns, trades, fills) ==
    [ticket_id |-> uuid5(1, decision_type), run_id |-> 1, asof_date |-> "d1", created_utc |-> 0,
     decision_type |-> decision_type, risk_checks |-> BaseChecks, blocking_reasons |-> rsns,
     intended_trades |-> trades, confirmed_fills |-> fills]

BasePayloads ==
    {BasePayload("TRADE", <<>>, BaseTrades, BaseFills),
     BasePayload("NO_TRADE", BaseReasons, BaseTrades, BaseFills),
     BasePayload("NO_TRADE", BaseReasons, <<>>, <<>>)}

(* Values an edit may write, on the grids of the model. *)
TextChoices == {0, 1}
MoneyChoices == {67, 201, 202, 400}
UnitChoices == {1, 2, 3}
SideChoices == {"BUY", "SELL"}
ReasonCodeChoices == {"DATA_QUALITY_FAIL", "NO_REBALANCE", "LEDGER_EMPTY"}

SwapAt(sq, i) == [sq EXCEPT ![i] = sq[i + 1], ![i + 1] = sq[i]]

EditQ(q, edit) ==
    /\ Step
    /\ pair.present /\ ~pair.hashed
    /\ q # pair.q
    /\ pair' = [pair EXCEPT !.q = q, !.material = edit]
    /\ UNCHANGED <<sched, facts, portfolio_targets, ledger_trades_intended, trades_intended_json,
                   tb_result, risk_checks, decisions, no_trade_json, trades_approved_json,
                   tickets, ledger_trades_fills, confirmations, audit_log, clock, proc,
                   submission, last_eval, passes>>

(* Edits of fields that _economic_material_input does not read. *)
EditCreatedUtc ==
    /\ pair.present
    /\ \E v \in TextChoices : EditQ([pair.q EXCEPT !.created_utc = v], pair.material)

EditFillMeta ==
    /\ pair.present
    /\ \E i \in 1..Len(pair.q.confirmed_fills), v \in TextChoices :
          \/ EditQ([pair.q EXCEPT !.confirmed_fills[i].filled_at = v], pair.material)
          \/ EditQ([pair.q EXCEPT !.confirmed_fills[i].notes = v], pair.material)
          \/ EditQ([pair.q EXCEPT !.confirmed_fills[i].sequence = 3 + v], pair.material)

EditReasonDetail ==
    /\ pair.present
    /\ \E i \in 1..Len(pair.q.blocking_reasons), v \in TextChoices :
          EditQ([pair.q EXCEPT !.blocking_reasons[i].detail = v], pair.material)

EditCheckDetail ==
    /\ pair.present
    /\ \E i \in 1..Len(pair.q.risk_checks), v \in TextChoices :
          EditQ([pair.q EXCEPT !.risk_checks[i].detail = v], pair.material)

AddUnknownCheck ==
    /\ pair.present
    /\ Len(pair.q.risk_checks) = Len(CheckNames)
    /\ \E ok \in BOOLEAN, at \in {0, Len(CheckNames)} :
          EditQ([pair.q EXCEPT !.risk_checks =
                    SubSeq(pair.q.risk_checks, 1, at)
                    \o <<[name |-> "confirmation_deadline", passed |-> ok, detail |-> 0]>>
                    \o SubSeq(pair.q.risk_checks, at + 1, Len(pair.q.risk_checks))],
                pair.material)

Reorder ==
    /\ pair.present
    /\ \/ \E i \in 1..(Len(pair.q.intended_trades) - 1) :
             EditQ([pair.q EXCEPT !.intended_trades = SwapAt(pair.q.intended_trades, i)], pair.material)
       \/ \E i \in 1..(Len(pair.q.confirmed_fills) - 1) :
             EditQ([pair.q EXCEPT !.confirmed_fills = SwapAt(pair.q.confirmed_fills, i)], pair.material)
       \/ \E i \in 1..(Len(pair.q.blocking_reasons) - 1) :
             EditQ([pair.q EXCEPT !.blocking_reasons = SwapAt(pair.q.blocking_reasons, i)], pair.material)
       \/ \E i \in {1, Len(pair.q.risk_checks) - 1} :
             EditQ([pair.q EXCEPT !.risk_checks = SwapAt(pair.q.risk_checks, i)], pair.material)

(* One edit of one field that _economic_material_input reads. *)
EditTradeField ==
    /\ pair.present /\ pair.material = NoEdit
    /\ \E i \in 1..Len(pair.q.intended_trades) :
       LET t == pair.q.intended_trades[i]
       IN \/ \E v \in Symbols :
               EditQ([pair.q EXCEPT !.intended_trades[i].internal_symbol = v],
                     [kind |-> "internal_symbol", old |-> t.internal_symbol, new |-> v])
          \/ \E v \in SideChoices :
               EditQ([pair.q EXCEPT !.intended_trades[i].side = v],
                     [kind |-> "side", old |-> side_order(t.side), new |-> side_order(v)])
          \/ \E v \in UnitChoices :
               EditQ([pair.q EXCEPT !.intended_trades[i].units = v],
                     [kind |-> "units", old |-> t.units, new |-> v])
          \/ \E v \in MoneyChoices :
               EditQ([pair.q EXCEPT !.intended_trades[i].notional_value_base = v],
                     [kind |-> "notional_value_base", old |-> t.notional_value_base, new |-> v])
          \/ \E v \in MoneyChoices :
               EditQ([pair.q EXCEPT !.intended_trades[i].reference_price = v],
                     [kind |-> "reference_price", old |-> t.reference_price, new |-> v])

EditFillField ==
    /\ pair.present /\ pair.material = NoEdit
    /\ \E i \in 1..Len(pair.q.confirmed_fills) :
       LET x == pair.q.confirmed_fills[i]
       IN \/ \E v \in UnitChoices :
               EditQ([pair.q EXCEPT !.confirmed_fills[i].units = v],
                     [kind |-> "fill.units", old |-> x.units, new |-> v])
          \/ \E v \in MoneyChoices :
               EditQ([pair.q EXCEPT !.confirmed_fills[i].fill_price = v],
                     [kind |-> "fill.fill_price", old |-> x.fill_price, new |-> v])
          \/ \E v \in MoneyChoices :
               EditQ([pair.q EXCEPT !.confirmed_fills[i].executed_value_base = v],
                     [kind |-> "fill.executed_value_base", old |-> x.executed_value_base, new |-> v])

EditReasonCodes ==
    /\ pair.present /\ pair.material = NoEdit
    /\ \/ \E c \in ReasonCodeChoices \ {b.code : b \in Range(pair.q.blocking_reasons)} :
             EditQ([pair.q EXCEPT !.blocking_reasons = Append(@, [code |-> c, detail |-> 0])],
                   [kind |-> "reason_codes", old |-> 0, new |-> 1])
       \/ /\ Len(pair.q.blocking_reasons) > 0
          /\ EditQ([pair.q EXCEPT !.blocking_reasons = Tail(@)],
                   [kind |-> "reason_codes", old |-> 1, new |-> 0])

FlipCheck ==
    /\ pair.present /\ pair.material = NoEdit
    /\ \E i \in 1..Len(pair.q.risk_checks) :
          /\ pair.q.risk_checks[i].name \in KnownChecks
          /\ EditQ([pair.q EXCEPT !.risk_checks[i].passed = ~@],
                   [kind |-> "check.passed", old |-> 1, new |-> 0])

(* ticket_render.main, 827-830, on both payloads. *)
HashPair ==
    /\ Step
    /\ pair.present /\ ~pair.hashed
    /\ pair' = [pair EXCEPT !.hashed = TRUE,
                            !.hash_p = material_hash_of(_economic_material_input(pair.p)),
                            !.hash_q = material_hash_of(_economic_material_input(pair.q))]
    /\ UNCHANGED <<sched, facts, portfolio_targets, ledger_trades_intended, trades_intended_json,
                   tb_result, risk_checks, decisions, no_trade_json, trades_approved_json,
                   tickets, ledger_trades_fills, confirmations, audit_log, clock, proc,
                   submission, last_eval, passes>>

HashEdits == 3

Init_Hash ==
    /\ EmptyTables
    /\ facts = DefaultFacts
    /\ portfolio_targets = [r \in Runs |-> {}]
    /\ ops = MaxOps - HashEdits
    /\ \E p \in BasePayloads :
          pair = [present |-> TRUE, p |-> p, q |-> p, material |-> NoEdit,
                  hashed |-> FALSE, hash_p |-> 0, hash_q |-> 0]

Next_Hash ==
    \/ EditCreatedUtc
    \/ EditFillMeta
    \/ EditReasonDetail
    \/ EditCheckDetail
    \/ AddUnknownCheck
    \/ Reorder
    \/ EditTradeField
    \/ EditFillField
    \/ EditReasonCodes
    \/ FlipCheck
    \/ HashPair

Spec_Hash == Init_Hash /\ [][Next_Hash]_vars

(***************************************************************************)
(* The scheduler (scripts/run_scheduled.py): one invocation of main for a  *)
(* cadence.  Every step is a child process that main waits for; the child  *)
(* is opaque here and its exit code is an input.  The statements between   *)
(* the steps that only read or write files (run_summary.md) are folded     *)
(* into the step that follows them.                                        *)
(***************************************************************************)
Cadences == {"0800", "1400"}
ExitCodes == {0, 1, 2}
UnknownRun == 0

\* accept_rcs of each _run_cmd call.
accept_rcs(name) ==
    IF name \in {"data-quality", "reconcile-run", "confirmation-gate", "riskguard"}
    THEN {0, 2}
    ELSE {0}

\* StepResult as _run_cmd builds it from the finished child.
outcome(rc) == IF rc = 0 THEN "OK" ELSE IF rc = 2 THEN "FAIL" ELSE "ERROR"

StepResult(name, rc) ==
    [name |-> name, rc |-> rc, ok |-> rc \in accept_rcs(name), outcome |-> outcome(rc)]

SkippedReconcile == [name |-> "reconcile-run", rc |-> 0, ok |-> TRUE, outcome |-> "SKIPPED"]

\* The statement that follows the step `name` in main, for the cadence: the
\* straight-line order of the try block with its two cadence conditions.
StepAfter_FetchAlways(cadence, name) ==
    CASE name = "migrate" -> "create-run"
      [] name = "create-run" -> "policy-validate"
      [] name = "policy-validate" -> "universe-import"
      [] name = "universe-import" -> "universe-validate"
      [] name = "universe-validate" -> "market-fetch"
      [] name = "market-fetch" -> "data-quality"
      [] name = "data-quality" -> "ledger-report"
      [] name = "ledger-report" -> "reconcile-run"
      [] name = "reconcile-run" ->
            IF cadence = "1400" THEN "confirmation-gate" ELSE "report-daily"
      [] name = "confirmation-gate" -> "score-stub"
      [] name = "score-stub" -> "riskguard"
      [] name = "riskguard" -> "ticket"
      [] name = "ticket" -> "report-daily"
      [] name = "report-daily" -> "finish"

StepAfter(cadence, name) ==
    CASE name = "migrate" -> "create-run"
      [] name = "create-run" -> "policy-validate"
      [] name = "policy-validate" -> "universe-import"
      [] name = "universe-import" -> "universe-validate"
      [] name = "universe-validate" ->
            IF cadence = "0800" THEN "market-fetch" ELSE "data-quality"
      [] name = "market-fetch" -> "data-quality"
      [] name = "data-quality" -> "ledger-report"
      [] name = "ledger-report" -> "reconcile-run"
      [] name = "reconcile-run" ->
            IF cadence = "1400" THEN "confirmation-gate" ELSE "report-daily"
      [] name = "confirmation-gate" -> "score-stub"
      [] name = "score-stub" -> "riskguard"
      [] name = "riskguard" -> "ticket"
      [] name = "ticket" -> "report-daily"
      [] name = "report-daily" -> "finish"

StepNames ==
    {"migrate", "policy-validate", "universe-import", "universe-validate", "market-fetch",
     "data-quality", "ledger-report", "reconcile-run", "confirmation-gate", "score-stub",
     "riskguard", "ticket", "report-daily"}

SchedFrame ==
    UNCHANGED <<facts, portfolio_targets, ledger_trades_intended, trades_intended_json,
                tb_result, risk_checks, decisions, no_trade_json, trades_approved_json,
                tickets, ledger_trades_fills, confirmations, audit_log, clock, ops, proc,
                pair, submission, last_eval, passes>>

\* main is entered with --cadence; --scoring admits "stub" only.
SchedStart ==
    /\ sched.pc = "idle"
    /\ \E c \in Cadences :
          sched' = [NoSched EXCEPT !.pc = "migrate", !.cadence = c, !.scoring = "stub",
                                   !.run_id = UnknownRun]
    /\ SchedFrame

\* subprocess.run starts the child of the step main has reached (at
\* reconcile-run: the case of reconcile_count > 0).
RunCmdStart ==
    /\ sched.pc \in StepNames
    /\ sched.running = ""
    /\ sched' = [sched EXCEPT !.running = sched.pc]
    /\ SchedFrame

\* reconcile-run with no reconciliation snapshot: recorded as SKIPPED, no child.
ReconcileSkipped ==
    /\ sched.pc = "reconcile-run"
    /\ sched.running = ""
    /\ sched' = [sched EXCEPT !.steps = Append(@, SkippedReconcile),
                              !.pc = StepAfter(sched.cadence, "reconcile-run")]
    /\ SchedFrame

\* The child exits with rc; main appends its StepResult and goes on, except
\* after a failed migrate, where it returns 2 before a run exists.
RunCmdExit ==
    /\ sched.pc \in StepNames
    /\ sched.running = sched.pc
    /\ \E rc \in ExitCodes :
          IF sched.pc = "migrate" /\ rc # 0
          THEN sched' = [sched EXCEPT !.steps = Append(@, StepResult(sched.pc, rc)),
                                      !.running = "",
                                      !.pc = "done", !.exit = 2]
          ELSE sched' = [sched EXCEPT !.steps = Append(@, StepResult(sched.pc, rc)),
                                      !.running = "",
                                      !.pc = StepAfter(sched.cadence, sched.pc)]
    /\ SchedFrame

\* insert into runs ... returning run_id, with status 'running'.
CreateRun ==
    /\ sched.pc = "create-run"
    /\ sched' = [sched EXCEPT !.run_id = 1, !.run_status = "running", !.status = "failed",
                              !.pc = StepAfter(sched.cadence, "create-run")]
    /\ SchedFrame

\* status from the steps, the final summary, the runs row update of the
\* finally block, and the exit code.
SchedFinish ==
    /\ sched.pc = "finish"
    /\ LET status == IF \A i \in 1..Len(sched.steps) : sched.steps[i].ok
                     THEN "passed" ELSE "failed"
       IN  sched' = [sched EXCEPT !.status = status, !.run_status = status,
                                  !.exit = IF status = "passed" THEN 0 ELSE 2,
                                  !.pc = "done"]
    /\ SchedFrame

Init_Sched ==
    /\ EmptyStore
    /\ facts = DefaultFacts
    /\ portfolio_targets = [r \in Runs |-> {}]
    /\ ops = 0

Next_Sched ==
    \/ SchedStart
    \/ RunCmdStart
    \/ ReconcileSkipped
    \/ RunCmdExit
    \/ CreateRun
    \/ SchedFinish

\* main is a sequential program and every child process terminates: a step
\* that can be taken is eventually taken.
Spec_Sched == Init_Sched /\ [][Next_Sched]_vars /\ WF_vars(Next_Sched)

(***************************************************************************)
(* Sizing invoked again for a run, directly or through the gate, after the *)
(* facts it reads have changed.                                            *)
(***************************************************************************)
RerunFacts ==
    {DefaultFacts,
     [DefaultFacts EXCEPT !.sizing = MissingPriceSizing],
     [DefaultFacts EXCEPT !.sizing = NoRebalanceSizing],
     [DefaultFacts EXCEPT !.dryrun_env = "on"],
     [DefaultFacts EXCEPT !.signals = {}],
     [DefaultFacts EXCEPT !.dq = "none", !.run_asof = "d0"]}

RerunFactsChange ==
    /\ Step
    /\ \E f \in RerunFacts \ {facts} : facts' = f
    /\ UNCHANGED <<sched, pair, confirmations, audit_log, submission, proc, portfolio_targets, ledger_trades_intended, trades_intended_json,
                   tb_result, risk_checks, decisions, no_trade_json, trades_approved_json,
                   tickets, ledger_trades_fills, clock, last_eval, passes>>

Next_Rerun ==
    \/ \E r \in Runs : RiskguardMain(r)
    \/ \E r \in Runs : TradeBuilderMain(r)
    \/ RerunFactsChange

Spec_Rerun == Init /\ [][Next_Rerun]_vars

(***************************************************************************)
(* Two runs side by side: evaluations, sizing invocations and ticket       *)
(* renders of either run, in any order, under unchanging facts.            *)
(***************************************************************************)
Next_Conc ==
    \/ \E r \in Runs : RiskguardMain(r)
    \/ \E r \in Runs : TradeBuilderMain(r)
    \/ \E r \in Runs : TicketRender(r)
    \/ Tick

Spec_Conc == Init /\ [][Next_Conc]_vars

(***************************************************************************)
(* The stages that write risk_checks rows, write by write.                 *)
(* scripts/confirmation_gate.py upserts the row confirmation_deadline of   *)
(* the run; riskguard_run.py:429-446 upserts its six rows and then the     *)
(* Decision, each through its own _psql_exec call, so every write commits  *)
(* on its own and other processes run between two of them.                 *)
(***************************************************************************)
OtherTradeTicketRuns(r) ==
    {q \in Runs \ {r} : tickets[q].present /\ tickets[q].ticket_type = "TRADE"}

(* select ... from tickets where run_id <> run_id and ticket_type = 'TRADE' *)
(* order by created_at desc limit 1, confirmation_gate.py:122-133.         *)
latest_ticket(r) ==
    IF OtherTradeTicketRuns(r) = {} THEN NoTicketId
    ELSE LET q == CHOOSE x \in OtherTradeTicketRuns(r) :
                    \A y \in OtherTradeTicketRuns(r) : tickets[y].created_at <= tickets[x].created_at
         IN tickets[q].ticket_id

conf_count(ticket_id) == Cardinality({c \in confirmations : c.ticket_id = ticket_id})

confirmation_deadline_ok(r) ==
    latest_ticket(r) = NoTicketId \/ conf_count(latest_ticket(r)) > 0

(* confirmation_gate.main, 112-191. *)
ConfirmationGateMain(r) ==
    /\ Step
    /\ risk_checks' = [risk_checks EXCEPT ![r] =
          UpsertChecks(@, <<[name |-> "confirmation_deadline",
                             passed |-> confirmation_deadline_ok(r)]>>)]
    /\ UNCHANGED <<sched, pair, confirmations, audit_log, submission, proc, facts,
                   portfolio_targets, ledger_trades_intended, trades_intended_json, tb_result,
                   decisions, no_trade_json, trades_approved_json, tickets,
                   ledger_trades_fills, clock, last_eval, passes>>

(* riskguard_run.main up to the verdict, 175-427: the targets and the      *)
(* sizing call have written; the six check rows and the Decision are still *)
(* to be written.                                                          *)
StageVerdict(r, call, rsns, checks, appr) ==
    /\ IF call.status = "returned"
       THEN TbEffects(r, call.tb)
       ELSE UNCHANGED <<tb_result, trades_intended_json, ledger_trades_intended>>
    /\ proc' = [proc EXCEPT ![r] =
          [table |-> "risk_checks", pending |-> checks, checks |-> checks, reasons |-> rsns,
           approved |-> appr, tb_status |-> call.status,
           intended_count |-> intended_count(call)]]

StageEvaluate(r, f, call) ==
    StageVerdict(r, call, reasons(f, call), risk_checks_of(f, call),
                 approved(reasons(f, call), risk_checks_of(f, call)))

RiskguardEvaluate(r) ==
    /\ Step
    /\ proc[r].table = "none"
    /\ portfolio_targets' = [portfolio_targets EXCEPT ![r] = TargetsAfter(r, facts)]
    /\ StageEvaluate(r, facts, TbCall(r, facts))
    /\ UNCHANGED <<sched, pair, confirmations, audit_log, submission, facts, risk_checks,
                   decisions, no_trade_json, trades_approved_json, tickets,
                   ledger_trades_fills, clock, last_eval, passes>>

(* One iteration of the loop of 429-437. *)
RiskCheckUpsert(r) ==
    /\ proc[r].table = "risk_checks"
    /\ proc[r].pending # <<>>
    /\ risk_checks' = [risk_checks EXCEPT ![r] = UpsertChecks(@, <<Head(proc[r].pending)>>)]
    /\ proc' = [proc EXCEPT ![r].pending = Tail(@)]
    /\ UNCHANGED <<sched, pair, confirmations, audit_log, submission, facts, portfolio_targets,
                   ledger_trades_intended, trades_intended_json, tb_result, decisions,
                   no_trade_json, trades_approved_json, tickets, ledger_trades_fills, clock,
                   ops, last_eval, passes>>

(* The Decision upsert and the artifact of the verdict, 439-474. *)
DecisionUpsert(r) ==
    /\ proc[r].table = "risk_checks"
    /\ proc[r].pending = <<>>
    /\ decisions' = [decisions EXCEPT ![r] =
          [present |-> TRUE, approved |-> proc[r].approved,
           decision_type |-> decision_type_of(proc[r].approved), reasons |-> proc[r].reasons]]
    /\ IF proc[r].approved
       THEN /\ trades_approved_json' = [trades_approved_json EXCEPT ![r] =
                  [present |-> TRUE, intended_trades_count |-> proc[r].intended_count]]
            /\ UNCHANGED no_trade_json
       ELSE /\ no_trade_json' = [no_trade_json EXCEPT ![r] =
                  [present |-> TRUE, reasons |-> proc[r].reasons, risk_checks |-> proc[r].checks]]
            /\ UNCHANGED trades_approved_json
    /\ last_eval' = [last_eval EXCEPT ![r] =
          [present |-> TRUE, risk_checks |-> proc[r].checks, tb_status |-> proc[r].tb_status,
           intended_count |-> proc[r].intended_count]]
    /\ proc' = [proc EXCEPT ![r] = Idle]
    /\ UNCHANGED <<sched, pair, confirmations, audit_log, submission, facts, portfolio_targets,
                   ledger_trades_intended, trades_intended_json, tb_result, risk_checks,
                   tickets, ledger_trades_fills, clock, ops, passes>>

Next_Stages ==
    \/ \E r \in Runs : ConfirmationGateMain(r)
    \/ \E r \in Runs : RiskguardEvaluate(r)
    \/ \E r \in Runs : RiskCheckUpsert(r)
    \/ \E r \in Runs : DecisionUpsert(r)
    \/ \E r \in Runs : TicketRender(r)
    \/ FactsChange

(* Three operations, each evaluation followed by its seven writes. *)
Init_Stages ==
    /\ facts = DefaultFacts
    /\ portfolio_targets = [r \in Runs |-> {}]
    /\ EmptyStore
    /\ ops = MaxOps - 3

Spec_Stages == Init_Stages /\ [][Next_Stages]_vars

Init_TB ==
    /\ \/ \E sz \in SizingInputs : facts = [DefaultFacts EXCEPT !.sizing = sz]
       \/ \E s \in Symbols :
            facts = [DefaultFacts EXCEPT !.sizing.prices[s] = 0]
       \/ \E d \in {"none", "f"}, a \in {NoAsof, "d1"}, e \in {"unset", "on", "true"} :
            facts = [DefaultFacts EXCEPT !.dq = d, !.run_asof = a, !.dryrun_env = e]
    /\ \E tc \in [Symbols -> TargetChoices], a \in {"d1", "d0"} :
          /\ a = "d0" => facts.sizing = DefaultSizing
          /\ portfolio_targets = [r \in Runs |-> IF r = 1 THEN TargetsFrom(tc, a) ELSE {}]
    /\ EmptyStore
    /\ ops = MaxOps - 1

Next_TB == \E r \in Runs : TradeBuilderMain(r)

Spec_TB == Init_TB /\ [][Next_TB]_vars

(***************************************************************************)
(* Properties of the sizing engine.                                        *)
(***************************************************************************)
OkResults == {tb_result[r] : r \in {x \in Runs : tb_result[x].called /\ tb_result[x].ok}}

SideSum(rows, side) ==
    SumOver({i \in 1..Len(rows) : rows[i].side = side},
            [i \in 1..Len(rows) |-> rows[i].notional_value_base])

(* C7: for every OK outcome the sequence numbers of the emitted intents    *)
(* are exactly 1..N, every SELL precedes every BUY, and within each side   *)
(* the intents are in ascending instrument order.                          *)
C7_SequencesDenseSellsFirst ==
    \A res \in OkResults :
        LET rows == res.intended_trades
        IN /\ \A i \in 1..Len(rows) : rows[i].sequence = i
           /\ \A i, j \in 1..Len(rows) :
                 /\ (rows[i].side = "SELL" /\ rows[j].side = "BUY")
                       => rows[i].sequence < rows[j].sequence
                 /\ (rows[i].side = rows[j].side /\ rows[i].sequence < rows[j].sequence)
                       => rows[i].internal_symbol < rows[j].internal_symbol

C7_Witness ==
    \E res \in OkResults :
        LET rows == res.intended_trades
        IN /\ Len(rows) = 3
           /\ rows[1].side = "SELL"
           /\ rows[2].side = "BUY" /\ rows[3].side = "BUY"
           /\ rows[1].internal_symbol > rows[2].internal_symbol

(* C8 as claimed: for every input the BUY notionals sum to at most the     *)
(* starting cash plus the SELL notionals.                                  *)
C8_CashConservationAnyCash ==
    \A res \in OkResults :
        SideSum(res.intended_trades, "BUY")
            <= res.cash_base + SideSum(res.intended_trades, "SELL")

(* C8 amended: the bound holds whenever the starting cash is not negative. *)
C8_CashConservation ==
    \A res \in OkResults :
        res.cash_base >= 0 =>
            SideSum(res.intended_trades, "BUY")
                <= res.cash_base + SideSum(res.intended_trades, "SELL")

C8_Witness ==
    \E res \in OkResults :
        /\ res.cash_base > 0
        /\ SideSum(res.intended_trades, "SELL") > 0
        /\ SideSum(res.intended_trades, "BUY") > res.cash_base

TargetRowsInOrder(f) ==
    LET budget == Max(0, 100 - f.min_cash_buffer)
        sel == top(f)
    IN [i \in 1..Len(sel) |->
          [internal_symbol |-> sel[i],
           target_weight |-> Min(f.max_position_weight, budget \div Len(sel)),
           target_value_base |-> NoTargetValue,
           asof_date |-> AsofOf(f)]]

IntendedRowsInOrder(rows) ==
    [i \in 1..Len(rows) |->
       [sequence |-> rows[i].sequence, internal_symbol |-> rows[i].internal_symbol,
        side |-> rows[i].side, units |-> rows[i].units,
        notional_value_base |-> rows[i].notional_value_base,
        reference_price |-> rows[i].reference_price, ticket_id |-> NoTicketId]]

(* riskguard_run.py:356-357: the delete, with the inserts still to come.   *)
PersistTargetsDelete(r) ==
    /\ Step
    /\ proc[r].table = "none"
    /\ AsofOf(facts) # NoAsof
    /\ portfolio_targets' = [portfolio_targets EXCEPT ![r] = {}]
    /\ proc' = [proc EXCEPT ![r] =
                  [table |-> "portfolio_targets", pending |-> TargetRowsInOrder(facts),
                   old |-> portfolio_targets[r], new |-> targets(facts), stopped |-> FALSE]]
    /\ UNCHANGED <<sched, pair, confirmations, audit_log, submission, facts, ledger_trades_intended, trades_intended_json, tb_result,
                   risk_checks, decisions, no_trade_json, trades_approved_json, tickets,
                   ledger_trades_fills, clock, last_eval, passes>>

(* riskguard_run.py:358-370: one iteration of the insert loop; on conflict *)
(* (run_id, internal_symbol) the row is replaced.                          *)
PersistTargetsInsert(r) ==
    /\ Step
    /\ proc[r].table = "portfolio_targets"
    /\ ~proc[r].stopped
    /\ IF proc[r].pending = <<>>
       THEN /\ proc' = [proc EXCEPT ![r] = Idle]
            /\ UNCHANGED portfolio_targets
       ELSE LET row == Head(proc[r].pending)
            IN /\ portfolio_targets' =
                     [portfolio_targets EXCEPT ![r] =
                        {t \in @ : t.internal_symbol # row.internal_symbol} \union {row}]
               /\ proc' = [proc EXCEPT ![r].pending = Tail(@)]
    /\ UNCHANGED <<sched, pair, confirmations, audit_log, submission, facts, ledger_trades_intended, trades_intended_json, tb_result,
                   risk_checks, decisions, no_trade_json, trades_approved_json, tickets,
                   ledger_trades_fills, clock, last_eval, passes>>

(* trade_builder.py:364-368: an OK outcome writes trades_intended.json and *)
(* runs the delete, with the inserts still to come.                        *)
StartIntendedReplace(r, out) ==
    /\ out.ok
    /\ trades_intended_json' = [trades_intended_json EXCEPT ![r] = TbFile(out)]
    /\ ledger_trades_intended' = [ledger_trades_intended EXCEPT ![r] = {}]
    /\ proc' = [proc EXCEPT ![r] =
                  [table |-> "ledger_trades_intended",
                   pending |-> IntendedRowsInOrder(out.intended_trades),
                   old |-> ledger_trades_intended[r],
                   new |-> IntendedRows(out.intended_trades), stopped |-> FALSE]]

PersistIntendedDelete(r) ==
    /\ Step
    /\ proc[r].table = "none"
    /\ AsofOf(facts) # NoAsof
    /\ StartIntendedReplace(r, TbOutcome(facts, portfolio_targets[r], AsofOf(facts)))
    /\ UNCHANGED <<sched, pair, confirmations, audit_log, submission, facts, portfolio_targets, tb_result, risk_checks, decisions,
                   no_trade_json, trades_approved_json, tickets, ledger_trades_fills,
                   clock, last_eval, passes>>

(* trade_builder.py:369-399: one iteration of the insert loop; on conflict *)
(* (run_id, sequence) the row is replaced.                                 *)
PersistIntendedInsert(r) ==
    /\ Step
    /\ proc[r].table = "ledger_trades_intended"
    /\ ~proc[r].stopped
    /\ IF proc[r].pending = <<>>
       THEN /\ proc' = [proc EXCEPT ![r] = Idle]
            /\ UNCHANGED ledger_trades_intended
       ELSE LET row == Head(proc[r].pending)
            IN /\ ledger_trades_intended' =
                     [ledger_trades_intended EXCEPT ![r] =
                        {t \in @ : t.sequence # row.sequence} \union {row}]
               /\ proc' = [proc EXCEPT ![r].pending = Tail(@)]
    /\ UNCHANGED <<sched, pair, confirmations, audit_log, submission, facts, portfolio_targets, trades_intended_json, tb_result,
                   risk_checks, decisions, no_trade_json, trades_approved_json, tickets,
                   ledger_trades_fills, clock, last_eval, passes>>

(* The writing process stops between two statements (subprocess.run with   *)
(* check=True raises, or the process is killed): nothing is rolled back.   *)
ProcessStops(r) ==
    /\ Step
    /\ proc[r].table # "none"
    /\ ~proc[r].stopped
    /\ proc[r].pending # <<>>
    /\ proc' = [proc EXCEPT ![r].pending = <<>>, ![r].stopped = TRUE]
    /\ UNCHANGED <<sched, pair, confirmations, audit_log, submission, facts, portfolio_targets, ledger_trades_intended, trades_intended_json,
                   tb_result, risk_checks, decisions, no_trade_json, trades_approved_json,
                   tickets, ledger_trades_fills, clock, last_eval, passes>>

StepFacts ==
    {[DefaultFacts EXCEPT !.signals = Ranked(sg), !.sizing = z] :
        sg \in {<<2>>, <<1, 2>>, <<3, 2>>}, z \in {DefaultSizing, NoRebalanceSizing}}

SignalsChange ==
    /\ Step
    /\ \E f \in StepFacts \ {facts} : facts' = f
    /\ UNCHANGED <<sched, pair, confirmations, audit_log, submission, proc, portfolio_targets, ledger_trades_intended, trades_intended_json,
                   tb_result, risk_checks, decisions, no_trade_json, trades_approved_json,
                   tickets, ledger_trades_fills, clock, last_eval, passes>>

Init_Steps ==
    /\ facts \in StepFacts
    /\ portfolio_targets = [r \in Runs |-> {}]
    /\ EmptyStore
    /\ ops = 0

Next_Steps ==
    \/ \E r \in Runs : PersistTargetsDelete(r)
    \/ \E r \in Runs : PersistTargetsInsert(r)
    \/ \E r \in Runs : PersistIntendedDelete(r)
    \/ \E r \in Runs : PersistIntendedInsert(r)
    \/ \E r \in Runs : ProcessStops(r)
    \/ SignalsChange

Spec_Steps == Init_Steps /\ [][Next_Steps]_vars

(***************************************************************************)
(* Properties of the gate and of the ticket.                               *)
(***************************************************************************)
KnownRows(r) == {x \in risk_checks[r] : x.check_name \in KnownChecks}
AllSixPassed(r) ==
    /\ \A c \in KnownChecks : \E x \in risk_checks[r] : x.check_name = c
    /\ \A x \in KnownRows(r) : x.passed
SomeCheckFailed(r) == \E x \in KnownRows(r) : ~x.passed

(* C1: right after a render, the run's ticket is a TRADE ticket only if    *)
(* the run's persisted Decision is approved, and the ticket's              *)
(* decision_type equals the persisted Decision's decision_type.            *)
C1_TicketMatchesDecision ==
    \A r \in Runs :
        (tickets[r].present /\ ~last_eval[r].present) =>
            /\ tickets[r].ticket_type = "TRADE" =>
                  (decisions[r].present /\ decisions[r].approved)
            /\ decisions[r].present
            /\ tickets[r].ticket_type = decisions[r].decision_type

(* C2: the persisted Decision is approved exactly when all six risk checks *)
(* passed and the blocking-reason list is empty, and its decision_type is  *)
(* TRADE exactly when it is approved, NO_TRADE otherwise.                  *)
C2_ApprovedIffChecksAndNoReasons ==
    \A r \in Runs :
        decisions[r].present =>
            /\ decisions[r].approved <=> (AllSixPassed(r) /\ Len(decisions[r].reasons) = 0)
            /\ decisions[r].decision_type = "TRADE" <=> decisions[r].approved
            /\ ~decisions[r].approved => decisions[r].decision_type = "NO_TRADE"

C2_Witness ==
    /\ decisions[1].present /\ decisions[1].approved
    /\ decisions[2].present /\ ~decisions[2].approved /\ SomeCheckFailed(2)

(* C3 as claimed: all six checks passing gives an approved TRADE Decision; *)
(* any failing check gives NO_TRADE with at least one blocking reason.     *)
C3_GateConjunctionAsClaimed ==
    \A r \in Runs :
        decisions[r].present =>
            /\ AllSixPassed(r) =>
                  (decisions[r].approved /\ decisions[r].decision_type = "TRADE")
            /\ SomeCheckFailed(r) =>
                  /\ ~decisions[r].approved
                  /\ decisions[r].decision_type = "NO_TRADE"
                  /\ Len(decisions[r].reasons) >= 1

(* C3 amended: all six checks passing gives an approved TRADE Decision     *)
(* when the sizing engine emitted at least one intent, and NO_TRADE with   *)
(* the single reason NO_REBALANCE when it emitted none; any failing check  *)
(* gives NO_TRADE with at least one blocking reason.                       *)
C3_GateConjunction ==
    \A r \in Runs :
        decisions[r].present =>
            /\ (AllSixPassed(r) /\ tb_result[r].intended_count > 0) =>
                  (decisions[r].approved /\ decisions[r].decision_type = "TRADE")
            /\ (AllSixPassed(r) /\ tb_result[r].intended_count = 0) =>
                  /\ ~decisions[r].approved
                  /\ decisions[r].decision_type = "NO_TRADE"
                  /\ decisions[r].reasons = <<"NO_REBALANCE">>
            /\ SomeCheckFailed(r) =>
                  /\ ~decisions[r].approved
                  /\ decisions[r].decision_type = "NO_TRADE"
                  /\ Len(decisions[r].reasons) >= 1

C3_Witness ==
    /\ decisions[1].present /\ AllSixPassed(1) /\ decisions[1].approved
    /\ decisions[2].present /\ decisions[2].reasons = <<"CONFIRMATION_MISSING">>

ReasonOwner(code) ==
    CASE code = "DATA_QUALITY_FAIL" -> "data_quality"
      [] code = "RECONCILIATION_REQUIRED" -> "reconciliation"
      [] code = "CONFIRMATION_MISSING" -> "confirmations"
      [] code = "UNIVERSE_NOT_VERIFIED" -> "universe_verified"
      [] code = "LEDGER_EMPTY" -> "ledger_ready"
      [] code \in {"DRYRUN_TRADES_DISABLED", "TRADE_BUILDER_BLOCKED", "TRADE_BUILDER_FAILED"}
            -> "trade_builder"
      [] OTHER -> "none"

ReasonsOwnedBy(r, c) ==
    Cardinality({i \in 1..Len(decisions[r].reasons) : ReasonOwner(decisions[r].reasons[i]) = c})

(* C4: in every evaluation each failing risk check has exactly one         *)
(* blocking reason, and a passing check has none.                          *)
C4_OneReasonPerFailingCheck ==
    \A r \in Runs :
        decisions[r].present =>
            \A x \in KnownRows(r) :
                ReasonsOwnedBy(r, x.check_name) = (IF x.passed THEN 0 ELSE 1)

C4_Witness ==
    \E r \in Runs :
        /\ decisions[r].present
        /\ decisions[r].reasons =
              <<"DATA_QUALITY_FAIL", "RECONCILIATION_REQUIRED", "UNIVERSE_NOT_VERIFIED",
                "LEDGER_EMPTY", "TRADE_BUILDER_FAILED">>

(* C5: a second evaluate-then-render pass over a run, with the facts       *)
(* unchanged and no other run touched, yields the same Decision, the same  *)
(* pass flags, the same ticket identity and the same material hash as the  *)
(* first pass.                                                             *)
C5_SecondPassIdentical ==
    \A r \in Runs :
        (Len(passes[r]) = 2
         /\ \A q \in Runs \ {r} : ~tickets[q].present /\ ~decisions[q].present) =>
            /\ passes[r][1].decision = passes[r][2].decision
            /\ passes[r][1].risk_checks = passes[r][2].risk_checks
            /\ passes[r][1].ticket_id = passes[r][2].ticket_id
            /\ passes[r][1].material_hash = passes[r][2].material_hash

(* C6: every re-render leaves the ticket's identity and stored creation    *)
(* time as they were, and shows the same creation time in the document.    *)
C6_TicketStableAcrossRenders ==
    [][\A r \in Runs :
          tickets[r].present =>
              /\ tickets'[r].present
              /\ tickets'[r].ticket_id = tickets[r].ticket_id
              /\ tickets'[r].created_at = tickets[r].created_at
              /\ tickets'[r].rendered_json.created_utc = tickets[r].rendered_json.created_utc]_vars
(* C10: while a replace-all of a run's IntendedTrade rows or               *)
(* PortfolioTarget rows is in flight, and after its process stopped        *)
(* between two statements, the run's stored set is either the complete     *)
(* set from before the write or the complete new set.                      *)
C10_ReplaceAllAtomic ==
    \A r \in Runs :
        /\ proc[r].table = "portfolio_targets" =>
              portfolio_targets[r] \in {proc[r].old, proc[r].new}
        /\ proc[r].table = "ledger_trades_intended" =>
              ledger_trades_intended[r] \in {proc[r].old, proc[r].new}

(* C11: the IntendedTrade rows persisted for a run are the intents of the  *)
(* latest sizing invocation that returned for that run; after a non-OK     *)
(* outcome that invocation reports zero intents and the run's persisted    *)
(* set is empty.                                                           *)
C11_PersistedIntentsAreLatest ==
    \A r \in Runs :
        tb_result[r].called =>
            /\ ~tb_result[r].ok =>
                  (tb_result[r].intended_count = 0 /\ ledger_trades_intended[r] = {})
            /\ ledger_trades_intended[r] = IntendedRows(tb_result[r].intended_trades)

(* C12: two payloads that differ only in fields that are not material     *)
(* (creation time, fill timestamps, notes and sequence numbers, reason     *)
(* detail, check detail, checks with a name outside the six, the order of  *)
(* trades, fills, reasons and checks) have the same material hash.         *)
C12_NonMaterialSameHash ==
    (pair.present /\ pair.hashed /\ pair.material = NoEdit) => pair.hash_p = pair.hash_q

C12_Witness ==
    /\ pair.present /\ pair.hashed /\ pair.material = NoEdit
    /\ pair.p # pair.q
    /\ Len(pair.p.confirmed_fills) = 2
    /\ pair.q.confirmed_fills[1].internal_symbol # pair.p.confirmed_fills[1].internal_symbol
    /\ pair.q.confirmed_fills[1].sequence # pair.p.confirmed_fills[2].sequence

(* C13 as stated: two payloads that differ in one material field (a        *)
(* trade's instrument, side, units, notional or reference price, a fill's  *)
(* units, price or executed value, the set of reason codes, the pass flag  *)
(* of one of the six checks) have different material hashes, whatever the  *)
(* two values of that field.                                               *)
C13_AnyMaterialChangeChangesHash ==
    (pair.present /\ pair.hashed /\ pair.material # NoEdit) => pair.hash_p # pair.hash_q

(* The fields that _fmt_decimal rounds to two decimals. *)
TwoDecimalFields == {"notional_value_base", "fill.executed_value_base"}

(* C13 amended: the hashes differ when the two values of the edited field  *)
(* differ after the rounding of the canonical form: notional and executed  *)
(* value are compared at two decimals, the other fields exactly.           *)
C13_RoundedChangeChangesHash ==
    (/\ pair.present /\ pair.hashed /\ pair.material # NoEdit
     /\ pair.material.kind \in TwoDecimalFields =>
            _fmt_decimal_2(pair.material.old) # _fmt_decimal_2(pair.material.new))
    => pair.hash_p # pair.hash_q

C13_Witness ==
    /\ pair.present /\ pair.hashed
    /\ pair.material.kind = "notional_value_base"
    /\ _fmt_decimal_2(pair.material.old) # _fmt_decimal_2(pair.material.new)
    /\ pair.p.intended_trades[1] # pair.q.intended_trades[1]
    /\ pair.p.intended_trades[2] # pair.q.intended_trades[2]
    /\ pair.hash_p # pair.hash_q

(* A submission has just been processed. *)
Submitted == submission' # submission

StoreUnchangedBySubmission == UNCHANGED <<confirmations, ledger_trades_fills, audit_log>>

(* C14 as stated: a fills submission against a NO_TRADE ticket and an      *)
(* acknowledgement against a TRADE ticket are rejected with the store      *)
(* unchanged, so no fill row is ever persisted for a NO_TRADE ticket.      *)
C14_NoFillsForNoTradeTicket ==
    [][Submitted =>
         (((submission'.mode = "fills" /\ submission'.decision_type = "NO_TRADE")
            \/ (submission'.mode = "ack" /\ submission'.decision_type = "TRADE"))
          => StoreUnchangedBySubmission)]_vars

(* C14 amended: the same, for fills submitted without                      *)
(* --allow-non-trade-ticket; with that flag the fills of a NO_TRADE ticket *)
(* are persisted.                                                          *)
C14_NoFillsForNoTradeTicketWithoutOverride ==
    [][Submitted =>
         (((submission'.mode = "fills" /\ submission'.decision_type = "NO_TRADE"
              /\ ~submission'.allow)
            \/ (submission'.mode = "ack" /\ submission'.decision_type = "TRADE"))
          => StoreUnchangedBySubmission)]_vars

C14_Witness ==
    /\ submission.present
    /\ submission.mode = "fills" /\ submission.decision_type = "NO_TRADE" /\ ~submission.allow
    /\ \A i \in 1..Len(submission.fills) : FillAccepted(submission.fills[i])
    /\ ~submission.accepted
    /\ ledger_trades_fills = {} /\ confirmations = {} /\ audit_log = {}

(* The invalid fills the specification lists: a sequence that is not an    *)
(* integer >= 1, an empty instrument id, a side outside BUY and SELL, a    *)
(* status outside DONE, SKIPPED, FAILED and PARTIAL (both read without     *)
(* regard to case), a negative value, units or price.                      *)
InvalidFill(f) ==
    \/ ~(f.sequence.kind = "int" /\ f.sequence.v >= 1)
    \/ f.internal_symbol = EmptySymbol
    \/ Upper(f.side) \notin {"BUY", "SELL"}
    \/ Upper(f.executed_status) \notin {"DONE", "SKIPPED", "FAILED", "PARTIAL"}
    \/ (f.executed_value_base # NoNumber /\ f.executed_value_base < 0)
    \/ (f.units # NoNumber /\ f.units < 0)
    \/ (f.fill_price # NoNumber /\ f.fill_price < 0)

(* C15: a fills submission that contains an invalid fill writes no         *)
(* confirmation row, no fill row and no audit row.                         *)
C15_InvalidFillRejectsSubmission ==
    [][Submitted =>
         ((submission'.mode = "fills"
            /\ \E i \in 1..Len(submission'.fills) : InvalidFill(submission'.fills[i]))
          => StoreUnchangedBySubmission)]_vars

(* The TRADE tickets of the runs other than r, and the confirmations flag  *)
(* that the latest of them gives.                                          *)
PreviousTradeTicketRuns(r) == TradeTicketRuns \ {r}

PreviousTicketConfirmed(r) ==
    IF PreviousTradeTicketRuns(r) = {} THEN TRUE
    ELSE LET q == CHOOSE x \in PreviousTradeTicketRuns(r) :
                    \A y \in PreviousTradeTicketRuns(r) : tickets[y].created_at <= tickets[x].created_at
         IN ~(confirmed_fills_of(tickets[q].ticket_id) < intended_count_of(tickets[q].ticket_id))

(* C16: an evaluation of run r records the confirmations check from the    *)
(* most recent TRADE ticket of another run, never from r's own ticket: it  *)
(* fails exactly when that ticket has fewer fills than intended trades and *)
(* passes when there is no such ticket.                                    *)
C16_ConfirmationsFromPreviousRun ==
    [][\A r \in Runs :
          RiskguardMain(r) =>
             \E x \in risk_checks'[r] :
                 x.check_name = "confirmations" /\ x.passed = PreviousTicketConfirmed(r)]_vars

(* Ascending rank, ties by ascending instrument id; a row without a rank   *)
(* comes after every ranked row.                                           *)
Precedes(a, b) ==
    \/ a.rank # NoRank /\ b.rank = NoRank
    \/ a.rank # NoRank /\ b.rank # NoRank /\ a.rank < b.rank
    \/ a.rank = b.rank /\ a.internal_symbol < b.internal_symbol

selected_count(f) == Min(f.max_positions, Cardinality(f.signals))

FirstByRank(f) ==
    {a.internal_symbol :
        a \in {x \in f.signals :
                 Cardinality({b \in f.signals : Precedes(b, x)}) < selected_count(f)}}

(* C17: the persisted targets of an evaluation are exactly the first       *)
(* min(max_positions, N) instruments by ascending rank and id, each with   *)
(* weight min(max_position_weight, (1 - min_cash_buffer) / selected_count). *)
C17_AllocatorSelectsTopByRank ==
    \A r \in Runs :
        decisions[r].present =>
            /\ {x.internal_symbol : x \in portfolio_targets[r]} = FirstByRank(facts)
            /\ Cardinality(portfolio_targets[r]) = selected_count(facts)
            /\ \A x \in portfolio_targets[r] :
                  x.target_weight =
                      Min(facts.max_position_weight,
                          (100 - facts.min_cash_buffer) \div selected_count(facts))

(* Two signals, max_positions 5, max weight 0.08, buffer 0.03: both 0.08. *)
C17_Witness ==
    /\ decisions[1].present
    /\ Cardinality(facts.signals) = 2 /\ facts.max_positions = 5
    /\ facts.max_position_weight = 8 /\ facts.min_cash_buffer = 3
    /\ Cardinality(portfolio_targets[1]) = 2
    /\ \A x \in portfolio_targets[1] : x.target_weight = 8

(* Instrument and weight of a set of target rows. *)
WeightsOf(rows) ==
    {[internal_symbol |-> x.internal_symbol, target_weight |-> x.target_weight] : x \in rows}

(* C18: after an evaluation the persisted PortfolioTarget rows of the run  *)
(* are exactly the targets computed in that evaluation, also with no       *)
(* signals and also when the as-of date cannot be resolved. The facts of   *)
(* a behaviour do not change, so the targets computed by the evaluation    *)
(* are the targets of the current facts.                                   *)
C18_PersistedTargetsAreComputed ==
    \A r \in Runs :
        decisions[r].present => WeightsOf(portfolio_targets[r]) = WeightsOf(targets(facts))

(* C19: after any sequence of evaluations of a run exactly one of          *)
(* no_trade.json and trades_approved.json exists, the one of the latest    *)
(* Decision.                                                               *)
C19_ExactlyOneDecisionArtifact ==
    \A r \in Runs :
        decisions[r].present =>
            /\ trades_approved_json[r].present # no_trade_json[r].present
            /\ trades_approved_json[r].present = decisions[r].approved

(* The check of a run failed and a reason it owns is in the Decision. *)
FailedWithReason(r, check) ==
    /\ \E x \in risk_checks[r] : x.check_name = check /\ ~x.passed
    /\ \E i \in 1..Len(decisions[r].reasons) : ReasonOwner(decisions[r].reasons[i]) = check

(* The missing facts and the check that owns each: the data-quality result *)
(* (data_quality); the as-of date and a passing reconciliation             *)
(* (reconciliation, when the policy requires it); the as-of date, the      *)
(* targets, a price and a sizing engine that raises (trade_builder).       *)
MissingFactOwners(f) ==
    {c \in KnownChecks :
        \/ c = "data_quality" /\ f.dq = "none"
        \/ c = "reconciliation" /\ f.reconcile_required
              /\ (AsofOf(f) = NoAsof \/ ~f.reconcile_window)
        \/ c = "trade_builder"
              /\ (AsofOf(f) = NoAsof \/ f.signals = {} \/ f.sizing = MissingPriceSizing
                  \/ f.tb_raises)}

(* What an evaluation of run r with a missing fact leaves behind. *)
BlockedByMissingFact(r) ==
    /\ decisions[r].present
    /\ \A c \in MissingFactOwners(facts) : FailedWithReason(r, c)
    /\ \A c \in KnownChecks : \E x \in risk_checks[r] : x.check_name = c
    /\ ~decisions[r].approved /\ decisions[r].decision_type = "NO_TRADE"

(* C20: a missing external fact never makes an evaluation fail: every      *)
(* evaluation of a run with a missing fact runs to its end, and at its end *)
(* the check that owns the missing fact is recorded as failed with a       *)
(* reason, all six RiskChecks are persisted and the Decision is NO_TRADE.  *)
C20_MissingFactBlocksWithoutCrash ==
    [][\A r \in Runs :
          (RiskguardMain(r) /\ MissingFactOwners(facts) # {}) => BlockedByMissingFact(r)']_vars

C20_Witness ==
    /\ decisions[1].present
    /\ facts.dq = "none" /\ AsofOf(facts) = NoAsof /\ facts.reconcile_required
    /\ facts.tb_raises /\ _bool_env(facts)
    /\ MissingFactOwners(facts) = {"data_quality", "reconciliation", "trade_builder"}
    /\ \E i \in 1..Len(decisions[1].reasons) : decisions[1].reasons[i] = "TRADE_BUILDER_FAILED"
    /\ Cardinality(risk_checks[1]) = Cardinality(KnownChecks)
    /\ decisions[1].decision_type = "NO_TRADE"

(* C21: after every render the hash in the material_hash file of a ticket  *)
(* equals the material_hash embedded in its ticket document, and both are  *)
(* the digest of the canonical material payload of the rendered document.  *)
C21_HashFileMatchesDocument ==
    \A r \in Runs :
        tickets[r].present =>
            /\ tickets[r].material_hash_txt = tickets[r].material_hash
            /\ tickets[r].material_hash =
                  material_hash_of(_economic_material_input(tickets[r].rendered_json))

C21_Witness ==
    /\ tickets[1].present /\ Len(passes[1]) = 2
    /\ passes[1][1].material_hash # passes[1][2].material_hash
    /\ tickets[1].material_hash_txt = passes[1][2].material_hash
    /\ tickets[1].material_hash = passes[1][2].material_hash

(***************************************************************************)
(* C22.  In a scheduled run, that is once main has created the runs row,   *)
(* the steps depend on the cadence.  An 08:00 run executes market-fetch    *)
(* and never starts confirmation-gate, score-stub, riskguard or ticket.  A *)
(* 14:00 run never starts market-fetch and executes confirmation-gate,     *)
(* score-stub, riskguard and ticket in that order; the ticket child is     *)
(* started only after the riskguard child has exited.  This holds for      *)
(* every exit code of every step of the run.                               *)
(***************************************************************************)
StepIndex(name) ==
    IF \E i \in 1..Len(sched.steps) : sched.steps[i].name = name
    THEN CHOOSE i \in 1..Len(sched.steps) : sched.steps[i].name = name
    ELSE 0

Started(name) == sched.pc # "idle" /\ (sched.running = name \/ StepIndex(name) > 0)

GateSteps == {"confirmation-gate", "score-stub", "riskguard", "ticket"}

InScheduledRun(cadence) ==
    sched.pc # "idle" /\ sched.run_id # UnknownRun /\ sched.cadence = cadence

C22_StepOrder ==
    /\ sched.pc # "idle" /\ sched.cadence = "0800" => \A n \in GateSteps : ~Started(n)
    /\ sched.pc # "idle" /\ sched.cadence = "1400" => ~Started("market-fetch")
    /\ Started("ticket") =>
          /\ 0 < StepIndex("confirmation-gate")
          /\ StepIndex("confirmation-gate") < StepIndex("score-stub")
          /\ StepIndex("score-stub") < StepIndex("riskguard")
          /\ sched.running = "ticket" \/ StepIndex("riskguard") < StepIndex("ticket")
    /\ Started("riskguard") => 0 < StepIndex("score-stub")
    /\ Started("score-stub") => 0 < StepIndex("confirmation-gate")

(* C22: an 08:00 run executes market-fetch and none of the gate steps; a  *)
(* 14:00 run executes no market-fetch and the gate steps in order, ticket *)
(* after riskguard has exited, for every exit code of every step.         *)
C22_StepsDependOnCadence ==
    /\ []C22_StepOrder
    /\ [](InScheduledRun("0800") => <>(StepIndex("market-fetch") > 0))
    /\ [](InScheduledRun("1400") => <>(StepIndex("ticket") > 0))

C22_Witness ==
    /\ InScheduledRun("1400")
    /\ StepIndex("ticket") > 0
    /\ sched.steps[StepIndex("confirmation-gate")].rc = 1
    /\ sched.steps[StepIndex("score-stub")].rc = 2
    /\ sched.steps[StepIndex("riskguard")].rc = 1
    /\ sched.steps[StepIndex("policy-validate")].rc = 2


(***************************************************************************)
(* C23 as claimed: for every portfolio value and policy the effective      *)
(* minimum notional of an invocation is                                    *)
(* min(min_notional_absolute, portfolio_value * min_notional_fraction),    *)
(* also when the portfolio value or the fraction is zero.                  *)
(***************************************************************************)
ClaimedMinNotional(res) ==
    Min(res.min_notional_base_abs, (res.portfolio_value_base * res.min_notional_pct) \div 100)

(* C23 as claimed: the effective minimum notional of every invocation is  *)
(* min(absolute minimum, portfolio value * fraction).                     *)
C23_EffectiveMinNotionalIsMin ==
    \A res \in OkResults : res.effective_min_notional_base = ClaimedMinNotional(res)

(* The part of C23 the code keeps: with a positive portfolio value and a   *)
(* positive fraction the effective minimum is the smaller of the two.      *)
C23_EffectiveMinNotionalWhenPositive ==
    \A res \in OkResults :
        (res.portfolio_value_base > 0 /\ res.min_notional_pct > 0)
            => res.effective_min_notional_base = ClaimedMinNotional(res)


(***************************************************************************)
(* C24 as claimed: in the canonical material payload the intended trades   *)
(* are ordered by instrument and then by side with SELL before BUY, so of  *)
(* two intended trades on one instrument the SELL entry comes first.       *)
(***************************************************************************)
SellPrecedesBuy(trades) ==
    \A i, j \in 1..Len(trades) :
        (/\ trades[i].internal_symbol = trades[j].internal_symbol
         /\ trades[i].side = "SELL" /\ trades[j].side = "BUY") => i < j

(* C24 as claimed: in the canonical payload a SELL entry precedes a BUY    *)
(* entry on the same instrument.                                          *)
C24_CanonicalTradesSellBeforeBuy ==
    (pair.present /\ pair.hashed) =>
        /\ SellPrecedesBuy(pair.hash_p.intended_trades)
        /\ SellPrecedesBuy(pair.hash_q.intended_trades)

(* What the canonical payload does keep: instruments in ascending order.   *)
C24_CanonicalTradesByInstrument ==
    (pair.present /\ pair.hashed) =>
        \A i, j \in 1..Len(pair.hash_q.intended_trades) :
            i < j => pair.hash_q.intended_trades[i].internal_symbol
                        <= pair.hash_q.intended_trades[j].internal_symbol


(***************************************************************************)
(* The BUY pass as the specification words it, over the instruments in     *)
(* ascending order: spend = min(target gap, remaining cash),               *)
(* units = floor(spend / price), notional = units * price when units > 0   *)
(* and otherwise the spend (raw, or floored at zero), emission exactly     *)
(* when notional >= min_notional, remaining cash reduced by the emitted    *)
(* notional.  The result lists <<instrument, units, notional>>.            *)
(***************************************************************************)
RECURSIVE ClaimedBuyPass(_, _, _, _, _, _, _)
ClaimedBuyPass(sz, tgts, syms, remaining_cash, min_notional, raw, acc) ==
    IF syms = <<>> THEN acc
    ELSE LET s == Head(syms)
             gap == delta(sz, tgts, s)
             price == Money(sz.prices[s])
             spend == Min(gap, remaining_cash)
             buy_units == IF spend > 0 THEN spend \div price ELSE 0
             notional == IF buy_units > 0 THEN buy_units * price
                         ELSE IF raw THEN spend ELSE Max(0, spend)
         IN IF gap > 0 /\ notional >= min_notional
            THEN ClaimedBuyPass(sz, tgts, Tail(syms), remaining_cash - notional, min_notional,
                                raw, Append(acc, <<s, buy_units, notional>>))
            ELSE ClaimedBuyPass(sz, tgts, Tail(syms), remaining_cash, min_notional, raw, acc)

BuysOf(rows) ==
    LET bs == SelectSeq(rows, LAMBDA t : t.side = "BUY")
    IN [i \in 1..Len(bs) |-> <<bs[i].internal_symbol, bs[i].units, bs[i].notional_value_base>>]

CashForBuys(res) == res.cash_base + SideSum(res.intended_trades, "SELL")

ClaimedBuys(r, raw) ==
    ClaimedBuyPass(facts.sizing, portfolio_targets[r],
                   SortedSeq(price_syms(facts.sizing, portfolio_targets[r])),
                   CashForBuys(tb_result[r]), tb_result[r].effective_min_notional_base,
                   raw, <<>>)

(* C25 as claimed: the emitted BUY intents of every OK outcome are those   *)
(* of the BUY pass above with the raw spend as the notional of a candidate *)
(* of no whole unit.                                                       *)
C25_BuyPassRawSpend ==
    \A r \in Runs :
        (tb_result[r].called /\ tb_result[r].ok) =>
            BuysOf(tb_result[r].intended_trades) = ClaimedBuys(r, TRUE)

(* C25: the emitted BUY intents of every OK outcome are those of the BUY   *)
(* pass above with the spend floored at zero as the notional of a          *)
(* candidate of no whole unit; such a candidate is emitted with no units   *)
(* and its notional is taken from the remaining cash.                      *)
C25_BuyPass ==
    \A r \in Runs :
        (tb_result[r].called /\ tb_result[r].ok) =>
            BuysOf(tb_result[r].intended_trades) = ClaimedBuys(r, FALSE)

C25_Witness ==
    \E r \in Runs :
        /\ tb_result[r].called /\ tb_result[r].ok
        /\ tb_result[r].effective_min_notional_base > 0
        /\ LET bs == BuysOf(tb_result[r].intended_trades)
           IN /\ Len(bs) = 2
              /\ bs[1][2] > 0
              /\ bs[2][2] = 0 /\ bs[2][3] > 0
              /\ bs[2][3] < delta(facts.sizing, portfolio_targets[r], bs[2][1])
              /\ \E s \in Symbols :
                    /\ s > bs[2][1]
                    /\ delta(facts.sizing, portfolio_targets[r], s) > 0


(***************************************************************************)
(* C26.  In the SELL pass every instrument whose current value exceeds its *)
(* target value (no target: target 0) gets                                 *)
(* sell_units = floor(min(held_units, |target - current| / price)), and is *)
(* emitted exactly when sell_units >= 1 and sell_units * price reaches the *)
(* effective minimum.  Every emitted SELL therefore has a whole number of  *)
(* units, at least 1 and at most the units held.                           *)
(* Holdings are in half units h: floor(min(h/2, g/p)) is                   *)
(* min(h * p, 2 * g) div (2 * p).                                          *)
(***************************************************************************)
ClaimedSellUnits(sz, tgts, s) ==
    LET h == sz.positions[s]
        p == Money(sz.prices[s])
        g == current_value(sz, s) - target_value(sz, tgts, s)
    IN Min(h * p, 2 * g) \div (2 * p)

SellRows(res) == {res.intended_trades[i] : i \in {j \in 1..Len(res.intended_trades) :
                                                     res.intended_trades[j].side = "SELL"}}

(* C26: every emitted SELL has the claimed whole number of units, at      *)
(* least 1 and at most the units held, and every instrument above target  *)
(* that qualifies is emitted.                                             *)
C26_SellPassNeverShort ==
    \A r \in Runs :
        (tb_result[r].called /\ tb_result[r].ok) =>
            LET sz == facts.sizing
                tgts == portfolio_targets[r]
                res == tb_result[r]
            IN /\ \A t \in SellRows(res) :
                     /\ t.units \in Nat /\ t.units >= 1
                     /\ 2 * t.units <= sz.positions[t.internal_symbol]
                     /\ current_value(sz, t.internal_symbol) > target_value(sz, tgts, t.internal_symbol)
                     /\ t.units = ClaimedSellUnits(sz, tgts, t.internal_symbol)
               /\ \A s \in price_syms(sz, tgts) :
                     (/\ current_value(sz, s) > target_value(sz, tgts, s)
                      /\ ClaimedSellUnits(sz, tgts, s) >= 1
                      /\ ClaimedSellUnits(sz, tgts, s) * Money(sz.prices[s])
                            >= res.effective_min_notional_base)
                        => \E t \in SellRows(res) : t.internal_symbol = s

C26_Witness ==
    \E r \in Runs :
        /\ tb_result[r].called /\ tb_result[r].ok
        /\ \E t \in SellRows(tb_result[r]) :
              /\ 2 * t.units < facts.sizing.positions[t.internal_symbol]
              /\ t.internal_symbol \in TargetSyms(portfolio_targets[r])
        /\ \E t \in SellRows(tb_result[r]) :
              /\ 2 * t.units = facts.sizing.positions[t.internal_symbol]
              /\ t.internal_symbol \notin TargetSyms(portfolio_targets[r])
        /\ \E s \in Symbols :
              /\ facts.sizing.positions[s] = 1
              /\ s \notin TargetSyms(portfolio_targets[r])


(***************************************************************************)
(* C27 as claimed.  Executions for a run a leave every stored entity keyed *)
(* by another run b (risk checks, Decision, portfolio targets, intended    *)
(* trades with their ticket link, ticket) as b's own executions wrote it,  *)
(* and the Decision b's evaluation persists is the one it would persist    *)
(* had a's executions not taken place: the confirmations check of b is     *)
(* decided by b's own latest TRADE ticket alone.                           *)
(***************************************************************************)
KeyedBy(b) ==
    <<risk_checks[b], decisions[b], portfolio_targets[b], ledger_trades_intended[b],
      tickets[b], trades_intended_json[b], no_trade_json[b], trades_approved_json[b]>>

ExecutionFor(a) == RiskguardMain(a) \/ TradeBuilderMain(a) \/ TicketRender(a)

OwnIntended(b) ==
    Cardinality({x \in ledger_trades_intended[b] : x.ticket_id = tickets[b].ticket_id})

OwnFills(b) ==
    Cardinality({x \in ledger_trades_fills : x.ticket_id = tickets[b].ticket_id})

OwnConfirmOk(b) ==
    IF tickets[b].present /\ tickets[b].ticket_type = "TRADE"
    THEN ~(OwnIntended(b) > 0 /\ OwnFills(b) < OwnIntended(b))
    ELSE TRUE

ConfirmationMissing(d) == \E i \in 1..Len(d.reasons) : d.reasons[i] = "CONFIRMATION_MISSING"

RunsIndependent ==
    \A a, b \in Runs :
        a # b =>
            /\ ExecutionFor(a) => UNCHANGED KeyedBy(b)
            /\ RiskguardMain(b) => (ConfirmationMissing(decisions'[b]) <=> ~OwnConfirmOk(b))

(* C27 as claimed: executions for one run neither write the entities of   *)
(* another run nor influence the Decision of another run.                 *)
C27_RunsIndependent == [][RunsIndependent]_vars

(* The part of C27 the code keeps: no execution for a run writes an entity *)
(* keyed by another run.                                                   *)
C27_OtherRunsEntitiesUntouched ==
    [][\A a, b \in Runs : (a # b /\ ExecutionFor(a)) => UNCHANGED KeyedBy(b)]_vars


(***************************************************************************)
(* C28 as claimed: in every state of the store, also between two writes of *)
(* a re-evaluation, a run whose persisted Decision is approved has no      *)
(* persisted risk check row with passed = false, whatever its name and     *)
(* whichever stage wrote it.                                               *)
(***************************************************************************)
C28_ApprovedHasNoFailedCheck ==
    \A r \in Runs :
        (decisions[r].present /\ decisions[r].approved) =>
            \A x \in risk_checks[r] : x.passed

(* What holds instead: when riskguard writes an approved Decision, the six *)
(* rows it has just written all have passed = true.                        *)
C28_ApprovedOwnChecksPassedWhenWritten ==
    [][\A r \in Runs :
          (DecisionUpsert(r) /\ decisions'[r].approved) =>
              \A x \in risk_checks'[r] : x.check_name \in KnownChecks => x.passed]_vars


(***************************************************************************)
(* C29 as claimed: whenever an evaluation records the confirmations check  *)
(* as passed while the latest TRADE ticket has N > 0 intended trades,      *)
(* every sequence number 1..N of that ticket has a recorded fill; neither  *)
(* fills of other sequence numbers nor the loss of the ticket link of the  *)
(* intended trades lets the check pass.                                    *)
(***************************************************************************)
LatestTradeTicketRun ==
    CHOOSE x \in TradeTicketRuns :
        \A y \in TradeTicketRuns : tickets[y].created_at <= tickets[x].created_at

TicketIntended(q) == tickets[q].rendered_json.intended_trades

EverySequenceFilled(q) ==
    \A i \in 1..Len(TicketIntended(q)) :
        \E x \in ledger_trades_fills :
            x.ticket_id = tickets[q].ticket_id /\ x.sequence = TicketIntended(q)[i].sequence

ConfirmationsPassed(checks) == \E x \in checks : x.check_name = "confirmations" /\ x.passed

(* C29 as claimed: a passed confirmations check means every intended      *)
(* sequence of the latest TRADE ticket has a recorded fill.               *)
C29_PassedMeansEverySequenceFilled ==
    [][\A r \in Runs :
          (/\ RiskguardMain(r)
           /\ ConfirmationsPassed(risk_checks'[r])
           /\ TradeTicketRuns # {}
           /\ Len(TicketIntended(LatestTradeTicketRun)) > 0)
              => EverySequenceFilled(LatestTradeTicketRun)]_vars

(* The same for a latest TRADE ticket whose intended trades still carry    *)
(* its ticket link and whose fills were reported for intended sequences.   *)
LinkKept(q) ==
    Cardinality({x \in ledger_trades_intended[q] : x.ticket_id = tickets[q].ticket_id})
        = Len(TicketIntended(q))

C29_PassedMeansFilledWhileLinked ==
    [][\A r \in Runs :
          (/\ RiskguardMain(r)
           /\ ConfirmationsPassed(risk_checks'[r])
           /\ TradeTicketRuns # {}
           /\ Len(TicketIntended(LatestTradeTicketRun)) > 0
           /\ LinkKept(LatestTradeTicketRun))
              => EverySequenceFilled(LatestTradeTicketRun)]_vars


(***************************************************************************)
(* C30.  Every approved Decision that an evaluation persists comes from an *)
(* evaluation in which sizing was enabled and the sizing engine returned   *)
(* ok with at least one intended trade; an evaluation whose sizing call    *)
(* returned ok with no intended trade persists a NO_TRADE Decision that    *)
(* carries the reason NO_REBALANCE.                                        *)
(***************************************************************************)
SizingReturnedOk(r) == last_eval'[r].tb_status = "returned" /\ tb_result'[r].ok

HasReason(d, code) == \E i \in 1..Len(d.reasons) : d.reasons[i] = code

ApprovedNeedsIntents(r) ==
    /\ decisions'[r].approved =>
          /\ _bool_env(facts)
          /\ SizingReturnedOk(r)
          /\ tb_result'[r].intended_count >= 1
          /\ Cardinality(ledger_trades_intended'[r]) = tb_result'[r].intended_count
    /\ (SizingReturnedOk(r) /\ tb_result'[r].intended_count = 0) =>
          /\ ~decisions'[r].approved
          /\ decisions'[r].decision_type = "NO_TRADE"
          /\ HasReason(decisions'[r], "NO_REBALANCE")

(* C30: an approved Decision needs an enabled sizing call that returned   *)
(* ok with at least one intent; ok with no intent gives NO_TRADE with     *)
(* NO_REBALANCE.                                                          *)
C30_ApprovedNeedsIntents == [][\A r \in Runs : RiskguardMain(r) => ApprovedNeedsIntents(r)]_vars

C30_Witness ==
    /\ facts.sizing = DefaultSizing
    /\ decisions[1].present /\ decisions[1].approved
    /\ tb_result[1].called /\ tb_result[1].ok /\ tb_result[1].intended_count >= 1
    /\ decisions[2].present /\ ~decisions[2].approved
    /\ tb_result[2].called /\ tb_result[2].ok /\ tb_result[2].intended_count >= 1

(* The other case of C30: sizing returned ok with no intent, next to a     *)
(* failed check.                                                           *)
C30_WitnessNoRebalance ==
    \E r \in Runs :
        /\ decisions[r].present /\ ~decisions[r].approved
        /\ tb_result[r].called /\ tb_result[r].ok /\ tb_result[r].intended_count = 0
        /\ HasReason(decisions[r], "NO_REBALANCE")
        /\ HasReason(decisions[r], "DATA_QUALITY_FAIL")


====
